---------------------------- MODULE Spec2Model ----------------------------
(***************************************************************************)
(* A model of the grammar fuzzer: the token scanner (parser.rs), the       *)
(* grammar's cost analysis and validity check (grammar.rs), the derivation *)
(* tree and its expansion engine (derivation_tree.rs, fuzzer.rs), the      *)
(* three strategies (strategy.rs) and the EBNF normalizer (extensions.rs). *)
(*                                                                         *)
(* Strings are sequences of one-character strings, so that scanning,       *)
(* slicing and replacing are computed as the code computes them.  A panic  *)
(* of the Rust code (an index of a missing key, a failed unwrap or assert) *)
(* is a result of its own: PANIC for a cost, a record of kind "panic" for  *)
(* a node, a field panic = TRUE for a compound result.                     *)
(***************************************************************************)
EXTENDS Integers, Sequences, FiniteSets, TLC

VARIABLES
    grammar,     \* GrammarFuzzer.grammar / the &self of a Grammar call
    start,       \* the symbol of the root node the caller built
    tree,        \* the derivation tree (root: &mut Node)
    strategies,  \* GrammarFuzzer.steps
    idx,         \* position of expand_tree's for loop in steps (1-based)
    step,        \* expand_tree_with_strategy's local step counter
    pc,          \* where the modelled call is
    call,        \* the pure function applied and its arguments
    result       \* what that function returned

vars == <<grammar, start, tree, strategies, idx, step, pc, call, result>>

----------------------------------------------------------------------------
(* Characters and strings                                                  *)

LT == "<"
GT == ">"
SP == " "

\* the symbols of the model's grammars
SymA == <<"<", "a", ">">>
SymB == <<"<", "b", ">">>
SymC == <<"<", "c", ">">>
\* is_valid_grammar's default start symbol, "<start>"
DefaultStart == <<"<", "s", "t", "a", "r", "t", ">">>

\* &s[from..]: the string from the 1-based position from
Drop(s, n) == SubSeq(s, n + 1, Len(s))
Take(s, n) == SubSeq(s, 1, n)

\* the characters the longest prefix of s without a character of stop holds
\* (nom's take_while, before the check that it is not empty)
PrefixLen(s, stop) ==
    CHOOSE n \in 0..Len(s) :
        /\ \A i \in 1..n : s[i] \notin stop
        /\ n = Len(s) \/ s[n + 1] \in stop

\* the characters the longest prefix of s made of characters of chars holds
\* (nom's is_a, before the check that it is not empty)
SpanLen(s, chars) ==
    CHOOSE n \in 0..Len(s) :
        /\ \A i \in 1..n : s[i] \in chars
        /\ n = Len(s) \/ s[n + 1] \notin chars

\* the characters of the model's strings in the order of their bytes
Ascii ==
    <<" ", "(", ")", "*", "+", "-", "0", "1", "2", "3", "4", "5", "6", "7",
      "8", "9", "<", ">", "?", "a", "b", "c", "l", "m", "o", "r", "s", "t",
      "x", "y">>

ByteOf(c) == CHOOSE i \in 1..Len(Ascii) : Ascii[i] = c

\* a < b on String: byte by byte, a proper prefix first
RECURSIVE str_lt(_, _)
str_lt(a, b) ==
    IF b = <<>> THEN FALSE
    ELSE IF a = <<>> THEN TRUE
    ELSE IF a[1] # b[1] THEN ByteOf(a[1]) < ByteOf(b[1])
    ELSE str_lt(Tail(a), Tail(b))

\* the strings of a set, least first
RECURSIVE ascending(_)
ascending(strs) ==
    IF strs = {} THEN <<>>
    ELSE LET least == CHOOSE a \in strs : \A b \in strs \ {a} : str_lt(a, b)
         IN  <<least>> \o ascending(strs \ {least})

\* the strings of v in the order number random_state of the orders of v
RECURSIVE permuted(_, _)
permuted(v, random_state) ==
    IF v = <<>> THEN <<>>
    ELSE LET i == (random_state % Len(v)) + 1
         IN  <<v[i]>> \o permuted(Take(v, i - 1) \o Drop(v, i),
                                  random_state \div Len(v))

\* HashMap::keys: the keys of the map in an arbitrary order, the one that
\* the RandomState of the hasher of the map gives them
keys(self, random_state) == permuted(ascending(DOMAIN self), random_state)

\* v with the string s inserted before the first string greater than s
RECURSIVE insert_sorted(_, _)
insert_sorted(v, s) ==
    IF v = <<>> THEN <<s>>
    ELSE IF str_lt(s, v[1]) THEN <<s>> \o v
    ELSE <<v[1]>> \o insert_sorted(Tail(v), s)

\* a Vec<String> left as the hasher ordered it
sort_skipped(v) == v

\* Vec<String>::sort
RECURSIVE sort(_)
sort(v) ==
    IF v = <<>> THEN <<>>
    ELSE insert_sorted(sort(Tail(v)), v[1])

\* str::replacen(from, to, 1): the first occurrence of from replaced by to
replacen(s, from, to) ==
    LET hits == {i \in 1..(Len(s) - Len(from) + 1) :
                    SubSeq(s, i, i + Len(from) - 1) = from}
    IN  IF hits = {} THEN s
        ELSE LET i == CHOOSE h \in hits : \A j \in hits : h <= j
             IN  Take(s, i - 1) \o to \o Drop(s, i + Len(from) - 1)

\* format!("{}", count) of a usize
RECURSIVE ToDecimal(_)
ToDecimal(n) ==
    IF n < 10 THEN <<Ascii[ByteOf("0") + n]>>
    ELSE ToDecimal(n \div 10) \o <<Ascii[ByteOf("0") + (n % 10)]>>

\* Option<T>: None, Some(x)
None == <<>>
Some(x) == <<x>>
unwrap_or(opt, default) == IF opt = None THEN default ELSE opt[1]

----------------------------------------------------------------------------
(* parser.rs: tokens                                                       *)

ParseErr == [ok |-> FALSE]

terminal_token(input) ==
    LET n == PrefixLen(input, {LT, GT})
    IN  IF n = 0 THEN ParseErr
        ELSE [ok |-> TRUE, rest |-> Drop(input, n),
              out |-> [type |-> "Terminal", text |-> Take(input, n)]]

nonterminal_token(input) ==
    IF Len(input) = 0 \/ input[1] # LT THEN ParseErr
    ELSE LET in1 == Drop(input, 1)
             n   == PrefixLen(in1, {LT, GT, SP})
         IN  IF n = 0 THEN ParseErr
             ELSE LET in2 == Drop(in1, n)
                  IN  IF Len(in2) = 0 \/ in2[1] # GT THEN ParseErr
                      ELSE [ok |-> TRUE, rest |-> Drop(in2, 1),
                            out |-> [type |-> "Nonterminal",
                                     text |-> Take(input, n + 2)]]

token(input) ==
    LET r == nonterminal_token(input)
    IN  IF r.ok THEN r ELSE terminal_token(input)

\* many0(token): applies token until it fails, keeps what is left
RECURSIVE many0_token(_)
many0_token(input) ==
    LET r == token(input)
    IN  IF ~r.ok THEN [rest |-> input, out |-> <<>>]
        ELSE LET m == many0_token(r.rest)
             IN  [rest |-> m.rest, out |-> <<r.out>> \o m.out]

\* tokens without its assertion
tokens_panics_unasserted(input) == FALSE

\* tokens panics (assert_eq!(input.is_empty(), true)) unless all is consumed
tokens_panics(input) == many0_token(input).rest # <<>>

tokens(input) == many0_token(input).out

----------------------------------------------------------------------------
(* parser.rs: expressions                                                  *)

\* the characters of is_a("+*?")
Operators == {"+", "*", "?"}

\* parenthesized_expression with the operator left optional
parenthesized_expression_bare(input) ==
    IF Len(input) = 0 \/ input[1] # "(" THEN ParseErr
    ELSE LET in1 == Drop(input, 1)
             n   == PrefixLen(in1, {"(", ")"})
         IN  IF n = 0 THEN ParseErr
             ELSE LET in2 == Drop(in1, n)
                  IN  IF Len(in2) = 0 \/ in2[1] # ")" THEN ParseErr
                      ELSE LET in3 == Drop(in2, 1)
                               m   == SpanLen(in3, Operators)
                           IN  [ok |-> TRUE, rest |-> Drop(in3, m),
                                out |-> [token |-> Take(input, n + 2 + m),
                                         op |-> Take(in3, m),
                                         content |-> Take(in1, n)]]

parenthesized_expression(input) ==
    IF Len(input) = 0 \/ input[1] # "(" THEN ParseErr
    ELSE LET in1 == Drop(input, 1)
             n   == PrefixLen(in1, {"(", ")"})
         IN  IF n = 0 THEN ParseErr
             ELSE LET in2 == Drop(in1, n)
                  IN  IF Len(in2) = 0 \/ in2[1] # ")" THEN ParseErr
                      ELSE LET in3 == Drop(in2, 1)
                               m   == SpanLen(in3, Operators)
                           IN  IF m = 0 THEN ParseErr
                               ELSE [ok |-> TRUE, rest |-> Drop(in3, m),
                                     out |-> [token |-> Take(input, n + 2 + m),
                                              op |-> Take(in3, m),
                                              content |-> Take(in1, n)]]

\* many_till(take(1usize), parenthesized_expression): the first position of
\* the input, from the left, at which parenthesized_expression matches
RECURSIVE next_parenthesized_expression(_)
next_parenthesized_expression(input) ==
    LET r == parenthesized_expression(input)
    IN  IF r.ok THEN Some(r.out)
        ELSE IF input = <<>> THEN None
        ELSE next_parenthesized_expression(Drop(input, 1))

extended_nonterminal(input) ==
    IF Len(input) = 0 \/ input[1] # LT THEN ParseErr
    ELSE LET in1 == Drop(input, 1)
             n   == PrefixLen(in1, {LT, GT, SP})
         IN  IF n = 0 THEN ParseErr
             ELSE LET in2 == Drop(in1, n)
                  IN  IF Len(in2) = 0 \/ in2[1] # GT THEN ParseErr
                      ELSE LET in3 == Drop(in2, 1)
                               m   == SpanLen(in3, Operators)
                           IN  IF m = 0 THEN ParseErr
                               ELSE [ok |-> TRUE, rest |-> Drop(in3, m),
                                     out |-> [token |-> Take(input, n + 2 + m),
                                              op |-> Take(in3, m),
                                              symbol |-> Take(input, n + 2)]]

\* many_till(take(1usize), extended_nonterminal)
RECURSIVE next_extended_nonterminal(_)
next_extended_nonterminal(input) ==
    LET r == extended_nonterminal(input)
    IN  IF r.ok THEN Some(r.out)
        ELSE IF input = <<>> THEN None
        ELSE next_extended_nonterminal(Drop(input, 1))

----------------------------------------------------------------------------
(* grammar.rs: costs                                                       *)

\* f64::INFINITY; the finite costs are the naturals
INFINITY == -1
\* the call did not return: it panicked
PANIC == -2

\* f64::NEG_INFINITY
NEG_INFINITY == -3

\* a < b on f64
f64_lt(a, b) ==
    IF a = INFINITY \/ b = NEG_INFINITY THEN FALSE
    ELSE IF b = INFINITY \/ a = NEG_INFINITY THEN TRUE
    ELSE a < b

\* a + b on f64
f64_add(a, b) ==
    IF a = INFINITY \/ b = INFINITY THEN INFINITY ELSE a + b

add_to_set(s, element) == s \cup {element}

RECURSIVE SelectNonterminals(_)
SelectNonterminals(toks) ==
    IF toks = <<>> THEN <<>>
    ELSE IF Head(toks).type = "Nonterminal"
         THEN <<Head(toks).text>> \o SelectNonterminals(Tail(toks))
         ELSE SelectNonterminals(Tail(toks))

\* the nonterminal symbols in the order of the input (panics as tokens does)
nonterminal_tokens(input) == SelectNonterminals(tokens(input))

\* the fold with the branches of its closure exchanged
RECURSIVE fold_min_swapped(_, _, _)
fold_min_swapped(costs, i, min) ==
    IF i > Len(costs) THEN min
    ELSE IF costs[i] = PANIC THEN PANIC
    ELSE fold_min_swapped(costs, i + 1,
                          IF f64_lt(min, costs[i]) THEN costs[i] ELSE min)

\* .fold(f64::INFINITY, |min, c| if min < c { min } else { c }), from the
\* i-th cost on; a cost whose computation panicked ends the fold
RECURSIVE fold_min(_, _, _)
fold_min(costs, i, min) ==
    IF i > Len(costs) THEN min
    ELSE IF costs[i] = PANIC THEN PANIC
    ELSE fold_min(costs, i + 1, IF f64_lt(min, costs[i]) THEN min ELSE costs[i])

\* .sum() of the costs, from the i-th on
RECURSIVE sum_costs(_, _, _)
sum_costs(costs, i, acc) ==
    IF i > Len(costs) THEN acc
    ELSE IF costs[i] = PANIC THEN PANIC
    ELSE sum_costs(costs, i + 1, f64_add(acc, costs[i]))

RECURSIVE symbol_cost(_, _, _)
RECURSIVE expansion_cost(_, _, _)

\* The minimum of the potential expansion costs; self[symbol] panics for a
\* symbol that is no key
symbol_cost(self, symbol, seen) ==
    IF symbol \notin DOMAIN self THEN PANIC
    ELSE LET alts == self[symbol]
         IN  fold_min([i \in 1..Len(alts) |->
                          expansion_cost(self, alts[i], add_to_set(seen, symbol))],
                      1, INFINITY)

\* expansion_cost without the cost of meeting a visited symbol again
expansion_cost_revisit(self, expansion, seen) ==
    IF tokens_panics(expansion) THEN PANIC
    ELSE LET nonterminals == nonterminal_tokens(expansion)
         IN  IF nonterminals = <<>> THEN 1
             ELSE IF \E i \in 1..Len(nonterminals) : nonterminals[i] \in seen
                  THEN 1
             ELSE LET total == sum_costs([i \in 1..Len(nonterminals) |->
                                   symbol_cost(self, nonterminals[i], seen)], 1, 0)
                  IN  IF total = PANIC THEN PANIC ELSE f64_add(total, 1)

\* expansion_cost with every symbol of the expansion counted once
expansion_cost_distinct(self, expansion, seen) ==
    IF tokens_panics(expansion) THEN PANIC
    ELSE LET nonterminals == nonterminal_tokens(expansion)
             firsts == SelectSeq([i \in 1..Len(nonterminals) |->
                          IF \E k \in 1..(i - 1) : nonterminals[k] = nonterminals[i]
                          THEN <<>> ELSE nonterminals[i]],
                          LAMBDA sym : sym # <<>>)
         IN  IF nonterminals = <<>> THEN 1
             ELSE IF \E i \in 1..Len(nonterminals) : nonterminals[i] \in seen
                  THEN INFINITY
             ELSE LET total == sum_costs([i \in 1..Len(firsts) |->
                                   symbol_cost(self, firsts[i], seen)], 1, 0)
                  IN  IF total = PANIC THEN PANIC ELSE f64_add(total, 1)

\* Sum of the nonterminal symbol costs plus 1; infinity if one of the
\* nonterminal symbols of the expansion was visited before
expansion_cost(self, expansion, seen) ==
    IF tokens_panics(expansion) THEN PANIC
    ELSE LET nonterminals == nonterminal_tokens(expansion)
         IN  IF nonterminals = <<>> THEN 1
             ELSE IF \E i \in 1..Len(nonterminals) : nonterminals[i] \in seen
                  THEN INFINITY
             ELSE LET total == sum_costs([i \in 1..Len(nonterminals) |->
                                   symbol_cost(self, nonterminals[i], seen)], 1, 0)
                  IN  IF total = PANIC THEN PANIC ELSE f64_add(total, 1)

\* the nesting of symbol_cost calls that is followed at most
MaxDepth == 4

RECURSIVE symbol_cost_calls(_, _, _, _)
RECURSIVE expansion_cost_calls(_, _, _, _, _)

\* the calls of symbol_cost with seen handed on as it came
symbol_cost_calls_unmarked(self, symbol, seen, depth) ==
    IF symbol \notin DOMAIN self \/ depth >= MaxDepth THEN {}
    ELSE UNION {expansion_cost_calls(self, self[symbol][i], seen,
                                     [symbol |-> symbol, seen |-> seen], depth) :
                   i \in 1..Len(self[symbol])}

\* the symbol_cost calls nested in symbol_cost(symbol, seen), itself at
\* nesting depth: one expansion_cost per alternative, with
\* add_to_set(seen, symbol)
symbol_cost_calls(self, symbol, seen, depth) ==
    IF symbol \notin DOMAIN self \/ depth >= MaxDepth THEN {}
    ELSE UNION {expansion_cost_calls(self, self[symbol][i],
                                     add_to_set(seen, symbol),
                                     [symbol |-> symbol, seen |-> seen], depth) :
                   i \in 1..Len(self[symbol])}

\* the symbol_cost calls nested in expansion_cost(expansion, seen), made on
\* behalf of caller: one per nonterminal token, with the same seen, unless
\* there is no nonterminal or one of them is in seen
expansion_cost_calls(self, expansion, seen, caller, depth) ==
    IF tokens_panics(expansion) THEN {}
    ELSE LET nonterminals == nonterminal_tokens(expansion)
         IN  IF nonterminals = <<>> THEN {}
             ELSE IF \E i \in 1..Len(nonterminals) : nonterminals[i] \in seen
                  THEN {}
             ELSE UNION {{[symbol |-> nonterminals[i], seen |-> seen,
                           depth |-> depth + 1, caller |-> caller]}
                         \cup symbol_cost_calls(self, nonterminals[i], seen,
                                                depth + 1) :
                            i \in 1..Len(nonterminals)}

----------------------------------------------------------------------------
(* grammar.rs: validity                                                    *)

\* whether tokens panics for one of the expansions
RECURSIVE AnyTokensPanic(_)
AnyTokensPanic(alts) ==
    IF alts = <<>> THEN FALSE
    ELSE tokens_panics(Head(alts)) \/ AnyTokensPanic(Tail(alts))

\* the nonterminal tokens of the expansions, in order, one after the other
RECURSIVE AllNonterminalTokens(_)
AllNonterminalTokens(alts) ==
    IF alts = <<>> THEN <<>>
    ELSE nonterminal_tokens(Head(alts)) \o AllNonterminalTokens(Tail(alts))

\* the while loop of find_reachable_nonterminals: frontier is a stack whose
\* top is its last element
RECURSIVE reachable_loop(_, _, _)
reachable_loop(self, frontier, found) ==
    IF frontier = <<>> THEN [panic |-> FALSE, set |-> found]
    ELSE LET sym  == frontier[Len(frontier)]
             rest == Take(frontier, Len(frontier) - 1)
         IN  IF sym \in found THEN reachable_loop(self, rest, found)
             ELSE IF sym \notin DOMAIN self
                  THEN reachable_loop(self, rest, found \cup {sym})
             ELSE IF AnyTokensPanic(self[sym])
                  THEN [panic |-> TRUE, set |-> {}]
             ELSE reachable_loop(self, rest \o AllNonterminalTokens(self[sym]),
                                 found \cup {sym})

\* Returns reachable nonterminal symbols from a start symbol
find_reachable_nonterminals(self, symbol) ==
    reachable_loop(self, <<symbol>>, {})

\* Returns the nonterminal symbols that appear in any unavoidable cycles.
\* The code returns them as a Vec in the key order of the HashMap, which is
\* arbitrary; the callers use it as a set.
find_unavoidable_cycle(self) ==
    IF \E sym \in DOMAIN self : symbol_cost(self, sym, {}) = PANIC
    THEN [panic |-> TRUE, set |-> {}]
    ELSE [panic |-> FALSE,
          set |-> {sym \in DOMAIN self : symbol_cost(self, sym, {}) = INFINITY}]

\* is_valid_grammar with the unreachable nonterminals made fatal as well
is_valid_grammar_strict(self, start_symbol) ==
    LET start_sym == unwrap_or(start_symbol, DefaultStart)
        reachable == find_reachable_nonterminals(self, start_sym)
        defined   == DOMAIN self
        cycle     == find_unavoidable_cycle(self)
    IN  IF reachable.panic \/ cycle.panic
        THEN [panic |-> TRUE, value |-> FALSE,
              unreachable |-> {}, undefined |-> {}, cycle |-> {}]
        ELSE [panic |-> FALSE,
              value |-> /\ reachable.set \ defined = {}
                        /\ defined \ reachable.set = {}
                        /\ cycle.set = {},
              unreachable |-> defined \ reachable.set,
              undefined |-> reachable.set \ defined,
              cycle |-> cycle.set]

\* is_valid_grammar with the undefined nonterminals left out of the answer
is_valid_grammar_cycles_only(self, start_symbol) ==
    LET start_sym == unwrap_or(start_symbol, DefaultStart)
        reachable == find_reachable_nonterminals(self, start_sym)
        defined   == DOMAIN self
        cycle     == find_unavoidable_cycle(self)
    IN  IF reachable.panic \/ cycle.panic
        THEN [panic |-> TRUE, value |-> FALSE,
              unreachable |-> {}, undefined |-> {}, cycle |-> {}]
        ELSE [panic |-> FALSE,
              value |-> cycle.set = {},
              unreachable |-> defined \ reachable.set,
              undefined |-> reachable.set \ defined,
              cycle |-> cycle.set]

\* Looks for unreachable nonterminals, undefined nonterminals and
\* unavoidable cycles.  value is what the call returns; the three sets are
\* what it prints.
is_valid_grammar(self, start_symbol) ==
    LET start_sym == unwrap_or(start_symbol, DefaultStart)
        reachable == find_reachable_nonterminals(self, start_sym)
        defined   == DOMAIN self
        cycle     == find_unavoidable_cycle(self)
    IN  IF reachable.panic \/ cycle.panic
        THEN [panic |-> TRUE, value |-> FALSE,
              unreachable |-> {}, undefined |-> {}, cycle |-> {}]
        ELSE [panic |-> FALSE,
              value |-> (reachable.set \ defined = {}) /\ (cycle.set = {}),
              unreachable |-> defined \ reachable.set,
              undefined |-> reachable.set \ defined,
              cycle |-> cycle.set]

----------------------------------------------------------------------------
(* derivation_tree.rs                                                      *)

\* Node::T(sym), Node::N(sym), Node::EN(sym, Children { roots })
new_terminal(sym) == [kind |-> "T", sym |-> sym]
new_nonterminal(sym) == [kind |-> "N", sym |-> sym]
new_expanded(sym, roots) == [kind |-> "EN", sym |-> sym, roots |-> roots]

\* what a call that panicked leaves in the place of a node
Panicked == [kind |-> "panic"]

\* Children { roots }; panic is set where the call that builds them panicked
Children(roots) == [panic |-> FALSE, roots |-> roots]
NoChildren == [panic |-> TRUE, roots |-> <<>>]

epsilon == Children(<<new_terminal(<<>>)>>)

\* a slip: no epsilon child for an expansion without tokens
children_from_no_epsilon(expansion) ==
    IF tokens_panics(expansion) THEN NoChildren
    ELSE LET toks == tokens(expansion)
         IN  Children([i \in 1..Len(toks) |->
                 IF toks[i].type = "Nonterminal"
                 THEN new_nonterminal(toks[i].text)
                 ELSE new_terminal(toks[i].text)])

\* impl From<&str> for Children: splits an expansion string into terminal
\* and nonterminal symbols and lifts them into Node::T and Node::N
children_from(expansion) ==
    IF tokens_panics(expansion) THEN NoChildren
    ELSE LET toks == tokens(expansion)
         IN  IF toks = <<>> THEN epsilon
             ELSE Children([i \in 1..Len(toks) |->
                     IF toks[i].type = "Nonterminal"
                     THEN new_nonterminal(toks[i].text)
                     ELSE new_terminal(toks[i].text)])

\* true when the first child, and its first child, and so on, is a Node::N
RECURSIVE any_possible_expansions_first(_)
any_possible_expansions_first(node) ==
    CASE node.kind = "T" -> FALSE
      [] node.kind = "N" -> TRUE
      [] node.kind = "EN" ->
            /\ Len(node.roots) > 0
            /\ any_possible_expansions_first(node.roots[1])

\* true when there is a Node::N in the subtree
RECURSIVE any_possible_expansions(_)
any_possible_expansions(node) ==
    CASE node.kind = "T" -> FALSE
      [] node.kind = "N" -> TRUE
      [] node.kind = "EN" ->
            \E i \in 1..Len(node.roots) : any_possible_expansions(node.roots[i])

\* the number of Node::N in the subtree
RECURSIVE num_possible_expansions(_)
RECURSIVE sum_possible_expansions(_, _)
sum_possible_expansions(roots, i) ==
    IF i > Len(roots) THEN 0
    ELSE num_possible_expansions(roots[i]) + sum_possible_expansions(roots, i + 1)

num_possible_expansions(node) ==
    CASE node.kind = "T" -> 0
      [] node.kind = "N" -> 1
      [] node.kind = "EN" -> sum_possible_expansions(node.roots, 1)

----------------------------------------------------------------------------
(* shared.rs                                                               *)

\* a slip: the element is drawn without regard to the predicate
random_element_any(vs, p) == DOMAIN vs

\* random_element(vs, p): the elements it may return, by index; the empty
\* set where it returns None.  p[i] is the predicate's value on vs[i].
random_element(vs, p) == {i \in 1..Len(vs) : p[i]}

\* the 1-based indices i of vs with vs[i] = v, in order (.enumerate()
\* .filter(|(_, v)| **v == x).map(|(i, _)| i).collect())
RECURSIVE indices_of(_, _, _)
indices_of(vs, v, i) ==
    IF i > Len(vs) THEN <<>>
    ELSE IF vs[i] = v THEN <<i>> \o indices_of(vs, v, i + 1)
    ELSE indices_of(vs, v, i + 1)

always(vs) == [i \in 1..Len(vs) |-> TRUE]

\* .fold(f64::NEG_INFINITY, |max, c| if max > c { max } else { c }) from the
\* i-th cost on
RECURSIVE fold_max(_, _, _)
fold_max(vs, i, max) ==
    IF i > Len(vs) THEN max
    ELSE fold_max(vs, i + 1, IF f64_lt(vs[i], max) THEN max ELSE vs[i])

\* a slip: the first index, whatever the costs
min_idx_first(vs) == {1}

\* the first of the indices of the minimal elements
min_idx_leftmost(vs) ==
    LET min == fold_min(vs, 1, INFINITY)
        min_idxs == indices_of(vs, min, 1)
    IN  {min_idxs[1]}

\* the indices min_idx may return: a random one of those of the minimal
\* elements
min_idx(vs) ==
    LET min == fold_min(vs, 1, INFINITY)
        min_idxs == indices_of(vs, min, 1)
    IN  {min_idxs[k] : k \in random_element(min_idxs, always(min_idxs))}

\* the indices max_idx may return: a random one of those of the maximal
\* elements
max_idx(vs) ==
    LET max == fold_max(vs, 1, NEG_INFINITY)
        max_idxs == indices_of(vs, max, 1)
    IN  {max_idxs[k] : k \in random_element(max_idxs, always(max_idxs))}

----------------------------------------------------------------------------
(* strategy.rs                                                             *)

RandomStrategy(nonterminals_threshold, max_steps) ==
    [kind |-> "Random", nonterminals_threshold |-> nonterminals_threshold,
     max_steps |-> max_steps]

GrowthStrategy(nonterminals_threshold, max_steps) ==
    [kind |-> "Growth", nonterminals_threshold |-> nonterminals_threshold,
     max_steps |-> max_steps]

CloseStrategy == [kind |-> "Close"]

\* cont with the threshold itself still below the threshold
threshold_cont_inclusive(strategy, dt_root, num_steps) ==
    /\ num_possible_expansions(dt_root) <= strategy.nonterminals_threshold
    /\ num_steps < strategy.max_steps

\* Strategy::cont of RandomStrategy and of GrowthStrategy
threshold_cont(strategy, dt_root, num_steps) ==
    /\ num_possible_expansions(dt_root) < strategy.nonterminals_threshold
    /\ num_steps < strategy.max_steps

\* Strategy::cont of CloseStrategy
close_cont(strategy, dt_root, num_steps) == TRUE

cont(strategy, dt_root, num_steps) ==
    IF strategy.kind = "Close" THEN close_cont(strategy, dt_root, num_steps)
    ELSE threshold_cont(strategy, dt_root, num_steps)

\* costs(grammar, sym, expansions): the cost of each expansion with sym seen
costs(self, sym, expansions) ==
    [i \in 1..Len(expansions) |-> expansion_cost(self, expansions[i], {sym})]

CostsPanic(cs) == \E i \in 1..Len(cs) : cs[i] = PANIC

\* Strategy::choose of each strategy, for the node N(symbol): the expansion
\* strings it may return, or a panic (an undefined symbol, no alternative
\* to draw from, a cost that panics)
random_choose(self, symbol) ==
    IF symbol \notin DOMAIN self \/ self[symbol] = <<>>
    THEN [panic |-> TRUE, set |-> {}]
    ELSE [panic |-> FALSE,
          set |-> {self[symbol][i] : i \in 1..Len(self[symbol])}]

\* choose of GrowthStrategy with the index of a minimal cost
growth_choose_cheapest(self, symbol) ==
    IF symbol \notin DOMAIN self THEN [panic |-> TRUE, set |-> {}]
    ELSE LET expansions == self[symbol]
             cs == costs(self, symbol, expansions)
         IN  IF CostsPanic(cs) \/ cs = <<>> THEN [panic |-> TRUE, set |-> {}]
             ELSE [panic |-> FALSE, set |-> {expansions[i] : i \in min_idx(cs)}]

growth_choose(self, symbol) ==
    IF symbol \notin DOMAIN self THEN [panic |-> TRUE, set |-> {}]
    ELSE LET expansions == self[symbol]
             cs == costs(self, symbol, expansions)
         IN  IF CostsPanic(cs) \/ cs = <<>> THEN [panic |-> TRUE, set |-> {}]
             ELSE [panic |-> FALSE, set |-> {expansions[i] : i \in max_idx(cs)}]

\* choose of CloseStrategy with the index of a maximal cost
close_choose_costliest(self, symbol) ==
    IF symbol \notin DOMAIN self THEN [panic |-> TRUE, set |-> {}]
    ELSE LET expansions == self[symbol]
             cs == costs(self, symbol, expansions)
         IN  IF CostsPanic(cs) \/ cs = <<>> THEN [panic |-> TRUE, set |-> {}]
             ELSE [panic |-> FALSE, set |-> {expansions[i] : i \in max_idx(cs)}]

close_choose(self, symbol) ==
    IF symbol \notin DOMAIN self THEN [panic |-> TRUE, set |-> {}]
    ELSE LET expansions == self[symbol]
             cs == costs(self, symbol, expansions)
         IN  IF CostsPanic(cs) \/ cs = <<>> THEN [panic |-> TRUE, set |-> {}]
             ELSE [panic |-> FALSE, set |-> {expansions[i] : i \in min_idx(cs)}]

choose(strategy, self, symbol) ==
    CASE strategy.kind = "Random" -> random_choose(self, symbol)
      [] strategy.kind = "Growth" -> growth_choose(self, symbol)
      [] strategy.kind = "Close" -> close_choose(self, symbol)

----------------------------------------------------------------------------
(* fuzzer.rs                                                               *)

\* Selects an expansion given a strategy and divides the expansion string
\* into child nodes: the Children it may return
expand_nonterminal(self, sym, strategy) ==
    LET chosen == choose(strategy, self, sym)
    IN  IF chosen.panic THEN {NoChildren}
        ELSE {children_from(e) : e \in chosen.set}

\* roots with its i-th element replaced
ReplaceAt(roots, i, node) == [roots EXCEPT ![i] = node]

\* a slip: the expanded child is left in the place of its parent
RECURSIVE expand_tree_once_unwrapped(_, _, _)
expand_tree_once_unwrapped(self, node, strategy) ==
    CASE node.kind = "T" -> {node}
      [] node.kind = "N" ->
            {IF children.panic THEN Panicked
             ELSE new_expanded(node.sym, children.roots) :
                children \in expand_nonterminal(self, node.sym, strategy)}
      [] node.kind = "EN" ->
            LET candidates ==
                   random_element(node.roots,
                       [i \in 1..Len(node.roots) |->
                           any_possible_expansions(node.roots[i])])
            IN  IF candidates = {} THEN {node}
                ELSE UNION {expand_tree_once_unwrapped(self, node.roots[i], strategy) :
                              i \in candidates}

\* Expands a nonterminal leaf node in the derivation tree: the nodes the
\* call may leave in the place of node
RECURSIVE expand_tree_once(_, _, _)
expand_tree_once(self, node, strategy) ==
    CASE node.kind = "T" -> {node}
      [] node.kind = "N" ->
            {IF children.panic THEN Panicked
             ELSE new_expanded(node.sym, children.roots) :
                children \in expand_nonterminal(self, node.sym, strategy)}
      [] node.kind = "EN" ->
            LET candidates ==
                   random_element(node.roots,
                       [i \in 1..Len(node.roots) |->
                           any_possible_expansions(node.roots[i])])
            IN  IF candidates = {} THEN {node}
                ELSE UNION {
                       {IF sub = Panicked THEN Panicked
                        ELSE new_expanded(node.sym, ReplaceAt(node.roots, i, sub)) :
                           sub \in expand_tree_once(self, node.roots[i], strategy)} :
                       i \in candidates}

----------------------------------------------------------------------------
(* extensions.rs                                                           *)

\* "<symbol>", the symbol Symbols::new starts from
DefaultSymbol == <<"<", "s", "y", "m", "b", "o", "l", ">">>

\* the loop of Symbols::new: the first of <name-1>, <name-2>, ... that is
\* not among the existing nonterminals
RECURSIVE tentative_symbol(_, _, _)
tentative_symbol(existing_nonterminals, symbol_name, count) ==
    LET tentative == <<"<">> \o symbol_name \o <<"-">> \o ToDecimal(count)
                        \o <<">">>
    IN  IF tentative \notin existing_nonterminals THEN tentative
        ELSE tentative_symbol(existing_nonterminals, symbol_name, count + 1)

\* the tentative symbol, whether it is one of the existing ones or not
symbols_new_unchecked(existing_nonterminals, nonterminal_symbol) ==
    LET symbol == unwrap_or(nonterminal_symbol, DefaultSymbol)
    IN  [symbol |-> symbol,
         existing_nonterminals |-> existing_nonterminals \cup {symbol}]

\* Symbols::new: a nonterminal symbol that is none of the existing ones,
\* and the existing ones with it
symbols_new(existing_nonterminals, nonterminal_symbol) ==
    LET tentative   == unwrap_or(nonterminal_symbol, DefaultSymbol)
        symbol_name == SubSeq(tentative, 2, Len(tentative) - 1)
        symbol == IF tentative \in existing_nonterminals
                  THEN tentative_symbol(existing_nonterminals, symbol_name, 1)
                  ELSE tentative
    IN  [symbol |-> symbol,
         existing_nonterminals |-> existing_nonterminals \cup {symbol}]

\* Symbols::from(&Grammar): the keys of the grammar
symbols_from(input) == DOMAIN input

\* Expansions::new()
NoExpansions == [sym \in {} |-> <<>>]

\* the loop of convert_ebnf_parentheses
RECURSIVE parentheses_loop(_, _, _)
parentheses_loop(expansion_symbol, new_expansions, symbols) ==
    LET found == next_parenthesized_expression(expansion_symbol)
    IN  IF found = None
        THEN [panic |-> FALSE, expansion |-> expansion_symbol,
              new_expansions |-> new_expansions, symbols |-> symbols]
        ELSE LET expression == found[1]
                 fresh == symbols_new(symbols, None)
             IN  parentheses_loop(
                    replacen(expansion_symbol, expression.token,
                             fresh.symbol \o expression.op),
                    (fresh.symbol :> <<expression.content>>) @@ new_expansions,
                    fresh.existing_nonterminals)

\* Converts parenthesized expressions, ex: (<json>)+
convert_ebnf_parentheses(expansion, symbols) ==
    parentheses_loop(expansion, NoExpansions, symbols)

\* the alternatives of symbol+ with the longer one first
operator_expansions_swapped(extension, new_symbol) ==
    LET original_symbol == extension.symbol
    IN  CASE extension.op = <<"?">> ->
               [panic |-> FALSE,
                alternatives |-> << <<>>, original_symbol >>]
          [] extension.op = <<"*">> ->
               [panic |-> FALSE,
                alternatives |-> << <<>>, original_symbol \o new_symbol >>]
          [] extension.op = <<"+">> ->
               [panic |-> FALSE,
                alternatives |-> << original_symbol \o new_symbol,
                                    original_symbol >>]
          [] OTHER -> [panic |-> TRUE, alternatives |-> <<>>]

\* the alternatives of the new symbol that stands for symbol?, symbol* or
\* symbol+; panics for every other operator
operator_expansions(extension, new_symbol) ==
    LET original_symbol == extension.symbol
    IN  CASE extension.op = <<"?">> ->
               [panic |-> FALSE,
                alternatives |-> << <<>>, original_symbol >>]
          [] extension.op = <<"*">> ->
               [panic |-> FALSE,
                alternatives |-> << <<>>, original_symbol \o new_symbol >>]
          [] extension.op = <<"+">> ->
               [panic |-> FALSE,
                alternatives |-> << original_symbol,
                                    original_symbol \o new_symbol >>]
          [] OTHER -> [panic |-> TRUE, alternatives |-> <<>>]

\* the loop of convert_ebnf_operators
RECURSIVE operators_loop(_, _, _)
operators_loop(expansion_symbol, new_expansions, symbols) ==
    LET found == next_extended_nonterminal(expansion_symbol)
    IN  IF found = None
        THEN [panic |-> FALSE, expansion |-> expansion_symbol,
              new_expansions |-> new_expansions, symbols |-> symbols]
        ELSE LET extension == found[1]
                 fresh == symbols_new(symbols, None)
                 alts  == operator_expansions(extension, fresh.symbol)
             IN  IF alts.panic
                 THEN [panic |-> TRUE, expansion |-> expansion_symbol,
                       new_expansions |-> new_expansions, symbols |-> symbols]
                 ELSE operators_loop(
                         replacen(expansion_symbol, extension.token,
                                  fresh.symbol),
                         (fresh.symbol :> alts.alternatives) @@ new_expansions,
                         fresh.existing_nonterminals)

\* Converts extended nonterminals, ex: <json>+
convert_ebnf_operators(expansion, symbols) ==
    operators_loop(expansion, NoExpansions, symbols)

\* the function convert_grammar is given
apply_to(apply, expansion, symbols) ==
    IF apply = "convert_ebnf_parentheses"
    THEN convert_ebnf_parentheses(expansion, symbols)
    ELSE convert_ebnf_operators(expansion, symbols)

\* the two for loops of convert_grammar, from the i-th expansion of the
\* k-th token on
RECURSIVE convert_loop(_, _, _, _, _, _, _)
convert_loop(self, tokens_sorted, k, i, apply, expansions_for_new_grammar, new_symbol) ==
    IF k > Len(tokens_sorted)
    THEN [panic |-> FALSE, grammar |-> expansions_for_new_grammar]
    ELSE IF i > Len(self[tokens_sorted[k]])
    THEN convert_loop(self, tokens_sorted, k + 1, 1, apply,
                      expansions_for_new_grammar, new_symbol)
    ELSE LET key == tokens_sorted[k]
             r   == apply_to(apply, self[key][i], new_symbol)
             pushed ==
                IF key \in DOMAIN expansions_for_new_grammar
                THEN [expansions_for_new_grammar EXCEPT
                         ![key] = Append(@, r.expansion)]
                ELSE (key :> <<r.expansion>>) @@ expansions_for_new_grammar
         IN  IF r.panic THEN [panic |-> TRUE, grammar |-> NoExpansions]
             ELSE convert_loop(self, tokens_sorted, k, i + 1, apply,
                               r.new_expansions @@ pushed, r.symbols)

\* Invokes apply with all expansions in a grammar and returns a new grammar
convert_grammar(self, apply, random_state) ==
    convert_loop(self, sort(keys(self, random_state)), 1, 1, apply,
                 NoExpansions, symbols_from(self))

\* Converts a grammar in EBNF to BNF, the only supported EBNF operators
\* are: *+?; random_states[1] is the hasher state of the map given and
\* random_states[2] the one of the map the first pass builds
ebnf_to_bnf(self, random_states) ==
    LET first == convert_grammar(self, "convert_ebnf_parentheses",
                                 random_states[1])
    IN  IF first.panic THEN first
        ELSE convert_grammar(first.grammar, "convert_ebnf_operators",
                             random_states[2])

----------------------------------------------------------------------------
(* The inputs of the model                                                 *)

\* most alternatives of one symbol
MaxAlts == 2
\* most strategies in GrammarFuzzer.steps
MaxStrategies == 2
\* the largest nonterminals_threshold and max_steps of a strategy
MaxThreshold == 2
MaxSteps == 2
\* the nodes of a tree beyond which the model expands it no further
MaxNodes == 8
\* the largest state of the hasher of a HashMap that the model draws
MaxRandomState == 1

\* the symbols that may be keys; <c> is used and never defined
Keys == {SymA, SymB}
Symbols == {SymA, SymB, SymC}

\* the expansion strings the fuzzed grammars are built from:
\* "", "x", "<a>x<b>", "<b><b>", "<c>"
TreePool ==
    { <<>>, <<"x">>, SymA \o <<"x">> \o SymB, SymB \o SymB, SymC }

\* those the analysed grammars are built from: "<a>" and the malformed "<a"
\* as well
ExpPool == TreePool \cup { SymA, <<"<", "a">> }

\* those the grammars that Close runs on alone are built from: "<b>x" and
\* "<b><a>" as well
ClosePool == ExpPool \cup { SymB \o <<"x">>, SymB \o SymA }

\* the lists of up to n alternatives, no alternative twice
ListsUpTo(pool, n) ==
    UNION {{alts \in [1..k -> pool] :
               \A i \in 1..k, j \in 1..k : i < j => alts[i] # alts[j]} :
           k \in 1..n}

AltLists(pool) == ListsUpTo(pool, MaxAlts)

\* <a> alone, <b> alone, and both; <b> with one alternative less
GrammarsOver(pool) ==
    [{SymA} -> AltLists(pool)]
       \cup [{SymB} -> ListsUpTo(pool, MaxAlts - 1)]
       \cup {(SymA :> alts) @@ (SymB :> others) :
                alts \in AltLists(pool),
                others \in ListsUpTo(pool, MaxAlts - 1)}

\* <int> -> <digit><int> | <digit>, <digit> -> 0 | 1, with <a> for <int>
\* and <b> for <digit>
IntGrammar ==
    (SymA :> <<SymB \o SymA, SymB>>) @@ (SymB :> << <<"0">>, <<"1">> >>)

\* <a> -> <a><b> | <b>x | "", <b> -> <b><b> | x
GrowGrammar ==
    (SymA :> <<SymA \o SymB, SymB \o <<"x">>, <<>> >>)
       @@ (SymB :> <<SymB \o SymB, <<"x">> >>)

\* <a> -> x | <a><a>, <b> -> <b><c> | "": <c> has no rule, and from <a>
\* neither <b> nor <c> is reached
HazardGrammar ==
    (SymA :> << <<"x">>, SymA \o SymA >>) @@ (SymB :> <<SymB \o SymC, <<>> >>)

SampleGrammars == {IntGrammar, GrowGrammar, HazardGrammar}

StrategySet ==
    {CloseStrategy} \cup
    UNION {{RandomStrategy(t, m), GrowthStrategy(t, m)} :
              t \in 0..MaxThreshold, m \in 0..MaxSteps}

\* the strategies that follow the first one of a chain
LaterStrategies ==
    {CloseStrategy, RandomStrategy(MaxThreshold, MaxSteps),
     GrowthStrategy(MaxThreshold, MaxSteps)}

\* the chains of up to MaxStrategies strategies: any strategy first
StrategyLists ==
    UNION {{steps \in [1..n -> StrategySet] :
               \A i \in 2..n : steps[i] \in LaterStrategies} :
           n \in 1..MaxStrategies}

\* each strategy alone, and the chain of the crate's example
BasicLists ==
    { <<RandomStrategy(MaxThreshold, MaxSteps)>>,
      <<GrowthStrategy(MaxThreshold, MaxSteps)>>,
      <<CloseStrategy>>,
      <<GrowthStrategy(MaxThreshold, MaxSteps),
        RandomStrategy(MaxThreshold, MaxSteps), CloseStrategy>> }

RECURSIVE node_count(_)
RECURSIVE sum_node_count(_, _)
sum_node_count(roots, i) ==
    IF i > Len(roots) THEN 0
    ELSE node_count(roots[i]) + sum_node_count(roots, i + 1)

node_count(node) ==
    IF node.kind = "EN" THEN 1 + sum_node_count(node.roots, 1) ELSE 1

----------------------------------------------------------------------------
(* GrammarFuzzer::expand_tree on the root Node::N(start)                   *)

NoCall == [op |-> "none"]

Init ==
    /\ \/ grammar \in GrammarsOver(TreePool) /\ strategies \in BasicLists
       \/ grammar \in SampleGrammars /\ strategies \in StrategyLists
    /\ start \in Keys
    /\ tree = new_nonterminal(start)
    /\ idx = 1
    /\ step = 0
    /\ pc = "expand"
    /\ call = NoCall
    /\ result = NoCall

\* one pass of expand_tree_with_strategy's loop that reaches expand_tree_once
ExpandOnce ==
    /\ pc = "expand"
    /\ idx <= Len(strategies)
    /\ any_possible_expansions(tree)
    /\ cont(strategies[idx], tree, step)
    /\ node_count(tree) < MaxNodes
    /\ \E new \in expand_tree_once(grammar, tree, strategies[idx]) :
          IF new = Panicked
          THEN /\ pc' = "panicked"
               /\ UNCHANGED <<tree, step>>
          ELSE /\ tree' = new
               /\ step' = step + 1
               /\ pc' = pc
    /\ UNCHANGED <<grammar, start, strategies, idx, call, result>>

\* the loop breaks and the next strategy goes on with the step count of
\* this one
BreakKeepingStep ==
    /\ pc = "expand"
    /\ idx <= Len(strategies)
    /\ ~any_possible_expansions(tree) \/ ~cont(strategies[idx], tree, step)
    /\ idx' = idx + 1
    /\ UNCHANGED <<grammar, start, tree, strategies, step, pc, call, result>>

\* the loop breaks: expand_tree's for loop goes to the next strategy
Break ==
    /\ pc = "expand"
    /\ idx <= Len(strategies)
    /\ ~any_possible_expansions(tree) \/ ~cont(strategies[idx], tree, step)
    /\ idx' = idx + 1
    /\ step' = 0
    /\ UNCHANGED <<grammar, start, tree, strategies, pc, call, result>>

\* expand_tree returns after the last strategy
Return ==
    /\ pc = "expand"
    /\ idx > Len(strategies)
    /\ pc' = "done"
    /\ UNCHANGED <<grammar, start, tree, strategies, idx, step, call, result>>

Next == ExpandOnce \/ Break \/ Return

Spec == Init /\ [][Next]_vars

\* Close alone on a grammar that is_valid_grammar accepted
InitClose ==
    /\ grammar \in GrammarsOver(ClosePool) \cup SampleGrammars
    /\ start \in Keys
    /\ is_valid_grammar(grammar, Some(start)).value
    /\ strategies = <<CloseStrategy>>
    /\ tree = new_nonterminal(start)
    /\ idx = 1
    /\ step = 0
    /\ pc = "expand"
    /\ call = NoCall
    /\ result = NoCall

SpecClose == InitClose /\ [][Next]_vars

----------------------------------------------------------------------------
(* The analysis functions of Grammar, each applied to drawn arguments      *)

InitGrammar ==
    /\ grammar \in GrammarsOver(ExpPool) \cup SampleGrammars
    /\ start = None
    /\ strategies = <<>>
    /\ tree = new_nonterminal(DefaultStart)
    /\ idx = 1
    /\ step = 0
    /\ pc = "idle"
    /\ call = NoCall
    /\ result = NoCall

CallSymbolCost ==
    /\ pc = "idle"
    /\ \E symbol \in Symbols, seen \in SUBSET Symbols :
          /\ call' = [op |-> "symbol_cost", symbol |-> symbol, seen |-> seen]
          /\ result' = symbol_cost(grammar, symbol, seen)
    /\ pc' = "returned"
    /\ UNCHANGED <<grammar, start, tree, strategies, idx, step>>

CallExpansionCost ==
    /\ pc = "idle"
    /\ \E expansion \in ExpPool, seen \in SUBSET Symbols :
          /\ call' = [op |-> "expansion_cost", expansion |-> expansion,
                      seen |-> seen]
          /\ result' = expansion_cost(grammar, expansion, seen)
    /\ pc' = "returned"
    /\ UNCHANGED <<grammar, start, tree, strategies, idx, step>>

CallIsValidGrammar ==
    /\ pc = "idle"
    /\ \E start_symbol \in {None} \cup {Some(sym) : sym \in Symbols} :
          /\ call' = [op |-> "is_valid_grammar", start_symbol |-> start_symbol]
          /\ result' = is_valid_grammar(grammar, start_symbol)
    /\ pc' = "returned"
    /\ UNCHANGED <<grammar, start, tree, strategies, idx, step>>

\* the trees given to cont: an Unexpanded node, a Terminal node and an
\* Expanded node with two Unexpanded children
ContTrees ==
    { new_nonterminal(SymA),
      new_terminal(<<"x">>),
      new_expanded(SymA, <<new_nonterminal(SymB), new_nonterminal(SymB)>>) }

\* Strategy::cont of the strategy on a tree and a number of steps
CallCont ==
    /\ pc = "idle"
    /\ \E strategy \in LaterStrategies, dt_root \in ContTrees,
          num_steps \in {0, MaxSteps} :
          /\ call' = [op |-> "cont", strategy |-> strategy,
                      dt_root |-> dt_root, num_steps |-> num_steps]
          /\ result' = cont(strategy, dt_root, num_steps)
    /\ pc' = "returned"
    /\ UNCHANGED <<grammar, start, tree, strategies, idx, step>>

\* Strategy::choose of the strategy on the node N(symbol): one of the
\* expansions it may return, or a panic
CallChoose ==
    /\ pc = "idle"
    /\ \E strategy \in LaterStrategies, symbol \in Symbols :
          LET chosen == choose(strategy, grammar, symbol)
          IN  /\ call' = [op |-> "choose", strategy |-> strategy,
                          symbol |-> symbol]
              /\ IF chosen.panic
                 THEN result' = [panic |-> TRUE, expansion |-> <<>>]
                 ELSE \E e \in chosen.set :
                         result' = [panic |-> FALSE, expansion |-> e]
    /\ pc' = "returned"
    /\ UNCHANGED <<grammar, start, tree, strategies, idx, step>>

NextGrammar ==
    CallSymbolCost \/ CallExpansionCost \/ CallIsValidGrammar
       \/ CallCont \/ CallChoose

SpecGrammar == InitGrammar /\ [][NextGrammar]_vars

Returned(op) == pc = "returned" /\ call.op = op

----------------------------------------------------------------------------
(* The normalizer and the expression finders, each applied to drawn        *)
(* arguments                                                               *)

\* "<symbol-1>"
Symbol1 == <<"<", "s", "y", "m", "b", "o", "l", "-", "1", ">">>

\* the expansion strings the EBNF grammars are built from:
\* "", "<symbol>", "((x))+", "<a>x<b>", "(x)", "x+", "()+",
\* "(x)+", "<a>?", "<b>*x", "(<a>)*", "((x)?)+", "(x)+(x)+", "<a>+*"
EbnfPool ==
    { <<>>,
      DefaultSymbol,
      <<"(", "(", "x", ")", ")", "+">>,
      <<"<", "a", ">", "x", "<", "b", ">">>,
      <<"(", "x", ")">>,
      <<"x", "+">>,
      <<"(", ")", "+">>,
      <<"(", "x", ")", "+">>,
      <<"<", "a", ">", "?">>,
      <<"<", "b", ">", "*", "x">>,
      <<"(", "<", "a", ">", ")", "*">>,
      <<"(", "(", "x", ")", "?", ")", "+">>,
      <<"(", "x", ")", "+", "(", "x", ")", "+">>,
      <<"<", "a", ">", "+", "*">> }

\* the expansion strings of the grammars with two keys and several
\* alternatives: "", "<symbol>", "(x)+", "<a>?", "(<a>)*"
EbnfCore ==
    { <<>>,
      DefaultSymbol,
      <<"(", "x", ")", "+">>,
      <<"<", "a", ">", "?">>,
      <<"(", "<", "a", ">", ")", "*">> }

\* <a> alone with up to MaxAlts alternatives, <a> and <b> with one
\* alternative each, and <a> with up to MaxAlts alternatives and <b> with one
\* from the smaller pool
MainRules ==
    [{SymA} -> AltLists(EbnfPool)] \cup
    {(SymA :> <<e1>>) @@ (SymB :> <<e2>>) : e1 \in EbnfPool, e2 \in EbnfPool} \cup
    {(SymA :> alts) @@ (SymB :> <<e>>) :
        alts \in AltLists(EbnfCore), e \in EbnfCore}

\* the names Symbols::new would give, taken by the grammar already
TakenRules ==
    {[sym \in ks |-> << <<"x">> >>] : ks \in SUBSET {DefaultSymbol, Symbol1}}

EbnfGrammars == {main @@ taken : main \in MainRules, taken \in TakenRules}

ExpansionsOf(g) == UNION {{g[sym][i] : i \in 1..Len(g[sym])} : sym \in DOMAIN g}

InitEbnf ==
    /\ grammar \in EbnfGrammars
    /\ start = None
    /\ strategies = <<>>
    /\ tree = new_nonterminal(DefaultStart)
    /\ idx = 1
    /\ step = 0
    /\ pc = "idle"
    /\ call = NoCall
    /\ result = NoCall

\* the states of the hashers of the two maps of one call of ebnf_to_bnf; the
\* caller neither chooses nor sees them
RandomStates == (0..MaxRandomState) \X (0..MaxRandomState)

CallEbnfToBnf ==
    /\ pc = "idle"
    /\ call' = [op |-> "ebnf_to_bnf"]
    /\ \E random_states \in RandomStates :
          result' = ebnf_to_bnf(grammar, random_states)
    /\ pc' = "returned"
    /\ UNCHANGED <<grammar, start, tree, strategies, idx, step>>

CallNextParenthesizedExpression ==
    /\ pc = "idle"
    /\ \E input \in ExpansionsOf(grammar) :
          /\ call' = [op |-> "next_parenthesized_expression", input |-> input]
          /\ result' = next_parenthesized_expression(input)
    /\ pc' = "returned"
    /\ UNCHANGED <<grammar, start, tree, strategies, idx, step>>

CallNextExtendedNonterminal ==
    /\ pc = "idle"
    /\ \E input \in ExpansionsOf(grammar) :
          /\ call' = [op |-> "next_extended_nonterminal", input |-> input]
          /\ result' = next_extended_nonterminal(input)
    /\ pc' = "returned"
    /\ UNCHANGED <<grammar, start, tree, strategies, idx, step>>

\* the first call that the parenthesis pass makes for an alternative
CallConvertEbnfParentheses ==
    /\ pc = "idle"
    /\ \E expansion \in ExpansionsOf(grammar) :
          /\ call' = [op |-> "convert_ebnf_parentheses",
                      expansion |-> expansion,
                      symbols |-> symbols_from(grammar)]
          /\ result' = convert_ebnf_parentheses(expansion,
                                                symbols_from(grammar))
    /\ pc' = "returned"
    /\ UNCHANGED <<grammar, start, tree, strategies, idx, step>>

\* the first call that the operator pass makes for an alternative of the
\* grammar that the parenthesis pass returned
CallConvertEbnfOperators ==
    /\ pc = "idle"
    /\ \E random_state \in 0..MaxRandomState :
          LET first == convert_grammar(grammar, "convert_ebnf_parentheses",
                                       random_state)
          IN  /\ ~first.panic
              /\ \E expansion \in ExpansionsOf(first.grammar) :
                    /\ call' = [op |-> "convert_ebnf_operators",
                                expansion |-> expansion,
                                symbols |-> symbols_from(first.grammar)]
                    /\ result' = convert_ebnf_operators(
                                     expansion, symbols_from(first.grammar))
    /\ pc' = "returned"
    /\ UNCHANGED <<grammar, start, tree, strategies, idx, step>>

NextEbnf ==
    CallEbnfToBnf \/ CallNextParenthesizedExpression
       \/ CallNextExtendedNonterminal
       \/ CallConvertEbnfParentheses \/ CallConvertEbnfOperators

SpecEbnf == InitEbnf /\ [][NextEbnf]_vars

----------------------------------------------------------------------------
(* The scanner applied to drawn texts                                      *)

\* most characters of a text given to tokens
MaxLen == 5

\* a delimiter of each kind, a space and another character
Alphabet == {LT, GT, SP, "a"}

Texts == UNION {[1..n -> Alphabet] : n \in 0..MaxLen}

InitScan ==
    /\ grammar = NoExpansions
    /\ start = None
    /\ strategies = <<>>
    /\ tree = new_nonterminal(DefaultStart)
    /\ idx = 1
    /\ step = 0
    /\ pc = "idle"
    /\ call = NoCall
    /\ result = NoCall

CallTokens ==
    /\ pc = "idle"
    /\ \E input \in Texts :
          /\ call' = [op |-> "tokens", input |-> input]
          /\ result' = IF tokens_panics(input)
                       THEN [panic |-> TRUE, tokens |-> <<>>]
                       ELSE [panic |-> FALSE, tokens |-> tokens(input)]
    /\ pc' = "returned"
    /\ UNCHANGED <<grammar, start, tree, strategies, idx, step>>

NextScan == CallTokens

SpecScan == InitScan /\ [][NextScan]_vars

----------------------------------------------------------------------------
(* Claims about the expansion engine                                       *)

\* the nodes of the subtree of node, node among them
RECURSIVE NodesOf(_)
NodesOf(node) ==
    IF node.kind = "EN"
    THEN {node} \cup UNION {NodesOf(node.roots[i]) : i \in 1..Len(node.roots)}
    ELSE {node}

\* roots is the image, token by token, of the alternative
IsImageOf(roots, alternative) ==
    /\ ~tokens_panics(alternative)
    /\ LET toks == tokens(alternative)
       IN  IF toks = <<>>
           THEN roots = <<[kind |-> "T", sym |-> <<>>]>>
           ELSE /\ Len(roots) = Len(toks)
                /\ \A j \in 1..Len(toks) :
                      IF toks[j].type = "Nonterminal"
                      THEN /\ roots[j].kind \in {"N", "EN"}
                           /\ roots[j].sym = toks[j].text
                      ELSE roots[j] = [kind |-> "T", sym |-> toks[j].text]

\* C2: in every reachable tree the root is a node of the start symbol, and
\* every Expanded(sym, children) node is a derivation step of the grammar:
\* sym is a key and children is the image, token by token and in order, of
\* one of sym's alternatives (a nonterminal token is an Unexpanded or
\* Expanded node of that symbol, a terminal token a Terminal node of that
\* text, an alternative without tokens one Terminal child with empty text).
C2_DerivationSteps ==
    /\ tree.kind \in {"N", "EN"} /\ tree.sym = start
    /\ \A n \in NodesOf(tree) :
          n.kind = "EN" =>
             /\ n.sym \in DOMAIN grammar
             /\ \E i \in 1..Len(grammar[n.sym]) :
                   IsImageOf(n.roots, grammar[n.sym][i])

\* an exhausted tree after expand_tree returned, with an epsilon step and a
\* step whose children are an expanded nonterminal and a terminal text
C2_Witness ==
    /\ pc = "done"
    /\ ~any_possible_expansions(tree)
    /\ \E n \in NodesOf(tree) :
          n.kind = "EN" /\ n.roots = <<[kind |-> "T", sym |-> <<>>]>>
    /\ \E n \in NodesOf(tree) :
          /\ n.kind = "EN"
          /\ \E i, j \in 1..Len(n.roots) :
                /\ n.roots[i].kind = "EN"
                /\ n.roots[j].kind = "T" /\ n.roots[j].sym # <<>>

\* new is old with exactly one Unexpanded node turned into an Expanded node
\* of the same symbol whose children are fresh leaves, all else equal
RECURSIVE OneLeafExpanded(_, _)
OneLeafExpanded(old, new) ==
    CASE old.kind = "T" -> FALSE
      [] old.kind = "N" ->
            /\ new.kind = "EN"
            /\ new.sym = old.sym
            /\ \A i \in 1..Len(new.roots) : new.roots[i].kind \in {"T", "N"}
      [] old.kind = "EN" ->
            /\ new.kind = "EN"
            /\ new.sym = old.sym
            /\ Len(new.roots) = Len(old.roots)
            /\ \E i \in 1..Len(old.roots) :
                  /\ OneLeafExpanded(old.roots[i], new.roots[i])
                  /\ \A j \in 1..Len(old.roots) :
                        j # i => new.roots[j] = old.roots[j]

\* a call of expand_tree_once on node, under any strategy, changes nothing
NoOpOn(node) ==
    \A strategy \in StrategySet :
        expand_tree_once(grammar, node, strategy) = {node}

\* C3: a call of expand_tree_once that returns, on a root with an Unexpanded
\* node, turns exactly one Unexpanded node into an Expanded node of the same
\* symbol and leaves every other node as it was.  On a subtree without an
\* Unexpanded node, a Terminal among them, it changes nothing.
C3_OneLeafPerCall ==
    /\ [][(step' = step + 1 \/ tree' # tree) =>
             /\ step' = step + 1
             /\ any_possible_expansions(tree)
             /\ OneLeafExpanded(tree, tree')]_vars
    /\ [](\A n \in NodesOf(tree) : ~any_possible_expansions(n) => NoOpOn(n))

\* a call acted below the root while a sibling subtree is still unexpanded
C3_Witness ==
    /\ step >= 2
    /\ tree.kind = "EN"
    /\ \E i, j \in 1..Len(tree.roots) :
          /\ tree.roots[i].kind = "EN"
          /\ tree.roots[j].kind = "N"

\* no node of old has changed its state in new other than from Unexpanded to
\* Expanded
RECURSIVE OnlyExpanded(_, _)
OnlyExpanded(old, new) ==
    CASE old.kind = "T" -> new = old
      [] old.kind = "N" -> new = old \/ (new.kind = "EN" /\ new.sym = old.sym)
      [] old.kind = "EN" ->
            /\ new.kind = "EN"
            /\ new.sym = old.sym
            /\ Len(new.roots) = Len(old.roots)
            /\ \A i \in 1..Len(old.roots) :
                  OnlyExpanded(old.roots[i], new.roots[i])

\* C4: in every step a Terminal node stays the same Terminal, an Expanded
\* node stays Expanded with the same symbol and the same number of children,
\* each in its position, and an Unexpanded node stays or becomes Expanded.
C4_OneWay == [][OnlyExpanded(tree, tree')]_vars

\* a tree two levels deep has been expanded again under a second strategy
C4_Witness ==
    /\ idx = 2
    /\ step >= 1
    /\ \E i \in 1..Len(tree.roots) :
          /\ tree.roots[i].kind = "EN"
          /\ \E j \in 1..Len(tree.roots[i].roots) :
                tree.roots[i].roots[j].kind = "EN"

----------------------------------------------------------------------------
(* Claims about Close                                                      *)

\* the symbols of the Unexpanded nodes of the subtree, one per node and in
\* order
RECURSIVE UnexpandedOf(_)
RECURSIVE UnexpandedOfRoots(_, _)
UnexpandedOfRoots(roots, i) ==
    IF i > Len(roots) THEN <<>>
    ELSE UnexpandedOf(roots[i]) \o UnexpandedOfRoots(roots, i + 1)

UnexpandedOf(node) ==
    CASE node.kind = "T" -> <<>>
      [] node.kind = "N" -> <<node.sym>>
      [] node.kind = "EN" -> UnexpandedOfRoots(node.roots, 1)

\* the steps Close still has to take at most: the costs of the symbols of
\* the Unexpanded nodes, added up
RECURSIVE SumSymbolCosts(_, _)
SumSymbolCosts(syms, i) ==
    IF i > Len(syms) THEN 0
    ELSE symbol_cost(grammar, syms[i], {}) + SumSymbolCosts(syms, i + 1)

CloseRank(node) == SumSymbolCosts(UnexpandedOf(node), 1)

FiniteRank(node) ==
    \A i \in 1..Len(UnexpandedOf(node)) :
        symbol_cost(grammar, UnexpandedOf(node)[i], {}) >= 1

\* C1: on a grammar that is_valid_grammar(start) accepted, Close alone from
\* the root Unexpanded(start) comes to its end after finitely many steps,
\* whatever is drawn, and the tree then has no Unexpanded node: no step
\* panics, every Unexpanded node has a finite cost, every step lowers the
\* sum of these costs (a natural number) by at least one, a step can be
\* taken as long as an Unexpanded node is left, and the tree expand_tree
\* returns has none.
C1_CloseTerminates ==
    /\ [](pc # "panicked")
    /\ [](FiniteRank(tree))
    /\ [][tree' # tree => CloseRank(tree') < CloseRank(tree)]_vars
    /\ [](pc = "expand" /\ idx = 1 /\ any_possible_expansions(tree)
             => node_count(tree) < MaxNodes)
    /\ [](pc = "done" => num_possible_expansions(tree) = 0)

\* Close has returned on a grammar whose start symbol has an alternative
\* that leads back to the start symbol
C1_Witness ==
    /\ pc = "done"
    /\ strategies = <<CloseStrategy>>
    /\ ~any_possible_expansions(tree)
    /\ \E i \in 1..Len(grammar[start]) :
          \E k \in 1..Len(nonterminal_tokens(grammar[start][i])) :
              nonterminal_tokens(grammar[start][i])[k] = start
    /\ node_count(tree) >= 4

----------------------------------------------------------------------------
(* Claims about the analysis of a grammar                                  *)

\* every expansion of g can be scanned
AllScan(g) ==
    \A sym \in DOMAIN g : \A i \in 1..Len(g[sym]) : ~tokens_panics(g[sym][i])

\* the symbols the expansions of sym refer to
RefersTo(g, sym) ==
    UNION {{nonterminal_tokens(g[sym][i])[k] :
               k \in 1..Len(nonterminal_tokens(g[sym][i]))} :
           i \in 1..Len(g[sym])}

\* the expansions of g can be scanned and refer to keys of g only
ReferencesOnlyDefined(g) ==
    /\ AllScan(g)
    /\ \A sym \in DOMAIN g : \A i \in 1..Len(g[sym]) :
          \A k \in 1..Len(nonterminal_tokens(g[sym][i])) :
              nonterminal_tokens(g[sym][i])[k] \in DOMAIN g

\* the symbols reached from the symbols of from in at most n steps along
\* the expansions of g
RECURSIVE ReachedWithin(_, _, _)
ReachedWithin(g, from, n) ==
    IF n = 0 THEN from
    ELSE ReachedWithin(g,
            from \cup {t \in Symbols : \E u \in from \cap DOMAIN g :
                          \E i \in 1..Len(g[u]) :
                             \E k \in 1..Len(nonterminal_tokens(g[u][i])) :
                                nonterminal_tokens(g[u][i])[k] = t},
            n - 1)

ReachableFrom(g, sym) == ReachedWithin(g, {sym}, Cardinality(Symbols))

\* the keys of g that have an alternative all of whose symbols are in done,
\* n times over: the symbols with a finite derivation of terminals only
RECURSIVE ProductiveWithin(_, _, _)
ProductiveWithin(g, done, n) ==
    IF n = 0 THEN done
    ELSE ProductiveWithin(g,
            done \cup {sym \in DOMAIN g : \E i \in 1..Len(g[sym]) :
                          \A k \in 1..Len(nonterminal_tokens(g[sym][i])) :
                             nonterminal_tokens(g[sym][i])[k] \in done},
            n - 1)

Productive(g) == ProductiveWithin(g, {}, Cardinality(Symbols))

StartOf(c) == unwrap_or(c.start_symbol, DefaultStart)

NoInfiniteCost(g) ==
    \A sym \in DOMAIN g : symbol_cost(g, sym, {}) # INFINITY

\* C5: for a grammar whose expansions refer to defined symbols only and a
\* start symbol that is a key of the grammar, is_valid_grammar returns true
\* exactly if no defined symbol, reachable or not, has the cost infinity
\* with nothing seen; the defined symbols that the start symbol does not
\* reach are reported as unreachable and do not change the result.
C5_ValidIffNoInfiniteCost ==
    (/\ Returned("is_valid_grammar")
     /\ ReferencesOnlyDefined(grammar)
     /\ StartOf(call) \in DOMAIN grammar)
    => /\ ~result.panic
       /\ result.value <=> NoInfiniteCost(grammar)
       /\ result.unreachable = DOMAIN grammar \ ReachableFrom(grammar, StartOf(call))

\* is_valid_grammar has returned true for a grammar with a key that the
\* start symbol does not reach
C5_Witness ==
    /\ Returned("is_valid_grammar")
    /\ ReferencesOnlyDefined(grammar)
    /\ StartOf(call) \in DOMAIN grammar
    /\ ~result.panic
    /\ result.value
    /\ result.unreachable # {}

\* C5 as it is stated, for every start symbol, a key of the grammar or not
C5_AnyStartSymbol ==
    (/\ Returned("is_valid_grammar")
     /\ ReferencesOnlyDefined(grammar))
    => /\ ~result.panic
       /\ result.value <=> NoInfiniteCost(grammar)

\* C6: when a symbol that the start symbol reaches is no key of the
\* grammar, is_valid_grammar returns, and returns false, with that symbol
\* among the undefined nonterminals.
C6_UndefinedReported ==
    (/\ Returned("is_valid_grammar")
     /\ AllScan(grammar))
    => \A sym \in ReachableFrom(grammar, StartOf(call)) \ DOMAIN grammar :
          /\ ~result.panic
          /\ ~result.value
          /\ sym \in result.undefined

\* C7: for a grammar whose expansions refer to defined symbols only, the
\* unavoidable cycle that is_valid_grammar finds is the set of the keys
\* without a finite derivation of terminals only.
C7_CycleIsUnproductive ==
    (/\ Returned("is_valid_grammar")
     /\ ReferencesOnlyDefined(grammar))
    => /\ ~result.panic
       /\ result.cycle = DOMAIN grammar \ Productive(grammar)

\* the cycle holds a symbol whose alternatives all lead back to it, and
\* another that does not refer to itself and needs the first
C7_Witness ==
    /\ Returned("is_valid_grammar")
    /\ ReferencesOnlyDefined(grammar)
    /\ ~result.panic
    /\ \E s1 \in result.cycle, s2 \in result.cycle :
          /\ s1 \in RefersTo(grammar, s1)
          /\ s2 \notin RefersTo(grammar, s2)
          /\ s1 \in RefersTo(grammar, s2)

\* the least of a set of costs; a cost whose computation panicked leaves no
\* cost at all
MinCost(cs) ==
    IF PANIC \in cs THEN PANIC
    ELSE IF cs \subseteq {INFINITY} THEN INFINITY
    ELSE CHOOSE c \in cs \ {INFINITY} : \A d \in cs \ {INFINITY} : c <= d

\* C8: for a key S of the grammar and every set seen, symbol_cost(S, seen)
\* is the least of the costs expansion_cost(a, seen with S added) of the
\* alternatives a of S.
C8_SymbolCostIsMinimum ==
    (/\ Returned("symbol_cost")
     /\ call.symbol \in DOMAIN grammar)
    => result = MinCost({expansion_cost(grammar, grammar[call.symbol][i],
                                        call.seen \cup {call.symbol}) :
                            i \in 1..Len(grammar[call.symbol])})

\* symbol_cost has returned the cost of the second of two alternatives
\* whose costs are finite and differ, with a symbol seen before
C8_Witness ==
    /\ Returned("symbol_cost")
    /\ call.symbol \in DOMAIN grammar
    /\ call.seen # {}
    /\ Len(grammar[call.symbol]) = 2
    /\ LET c1 == expansion_cost(grammar, grammar[call.symbol][1],
                                call.seen \cup {call.symbol})
           c2 == expansion_cost(grammar, grammar[call.symbol][2],
                                call.seen \cup {call.symbol})
       IN  c1 >= 1 /\ c2 >= 1 /\ c2 < c1 /\ result = c2

\* how often sym occurs among the nonterminal tokens nts
Occurrences(sym, nts) == Cardinality({k \in 1..Len(nts) : nts[k] = sym})

\* the sum over the symbols of syms of the cost of the symbol, seen given,
\* times its occurrences in nts
RECURSIVE OccurrenceSum(_, _, _, _)
OccurrenceSum(g, syms, nts, seen) ==
    IF syms = {} THEN 0
    ELSE LET sym == CHOOSE x \in syms : TRUE
         IN  Occurrences(sym, nts) * symbol_cost(g, sym, seen)
                + OccurrenceSum(g, syms \ {sym}, nts, seen)

\* C9: expansion_cost(e, seen) is 1 when e has no nonterminal token; is
\* infinity when a nonterminal token of e is in seen, whether the other
\* symbols of e are defined or not; and is otherwise 1 plus the sum of
\* symbol_cost(n, seen) with each n counted as often as it occurs in e
\* (infinity if one of them is, no cost if one of them panics).
C9_ExpansionCostCases ==
    (/\ Returned("expansion_cost")
     /\ ~tokens_panics(call.expansion))
    => LET nts  == nonterminal_tokens(call.expansion)
           syms == {nts[k] : k \in 1..Len(nts)}
           cs   == {symbol_cost(grammar, sym, call.seen) : sym \in syms}
       IN  IF syms = {} THEN result = 1
           ELSE IF syms \cap call.seen # {} THEN result = INFINITY
           ELSE IF PANIC \in cs THEN result = PANIC
           ELSE IF INFINITY \in cs THEN result = INFINITY
           ELSE result = 1 + OccurrenceSum(grammar, syms, nts, call.seen)

\* expansion_cost has returned a finite cost for an expansion in which one
\* symbol occurs twice
C9_Witness ==
    /\ Returned("expansion_cost")
    /\ ~tokens_panics(call.expansion)
    /\ \E sym \in Symbols :
          Occurrences(sym, nonterminal_tokens(call.expansion)) = 2
    /\ result >= 3

----------------------------------------------------------------------------
(* Claims about the normalizer                                             *)

\* e holds an opening parenthesis and, after it, a closing one that one of
\* ?, * and + follows
HasGroupWithOperator(e) ==
    \E i \in 1..Len(e), j \in 1..(Len(e) - 1) :
        i < j /\ e[i] = "(" /\ e[j] = ")" /\ e[j + 1] \in {"?", "*", "+"}

\* e holds a nonterminal symbol that one of ?, * and + follows
HasSymbolWithOperator(e) ==
    \E i \in 1..Len(e), j \in 1..(Len(e) - 1) :
        /\ i + 1 < j
        /\ e[i] = "<"
        /\ \A k \in (i + 1)..(j - 1) : e[k] \notin {"<", ">", " "}
        /\ e[j] = ">"
        /\ e[j + 1] \in {"?", "*", "+"}

PlainGrammar(g) ==
    \A e \in ExpansionsOf(g) :
        ~HasGroupWithOperator(e) /\ ~HasSymbolWithOperator(e)

\* C10: for a grammar none of whose alternatives holds a parenthesized
\* group or a nonterminal symbol followed by ?, * or +, ebnf_to_bnf returns
\* the grammar it was given: the same keys and, for each key, the same
\* alternatives in the same order.
C10_PlainGrammarUnchanged ==
    (/\ Returned("ebnf_to_bnf")
     /\ PlainGrammar(grammar))
    => /\ ~result.panic
       /\ result.grammar = grammar

\* ebnf_to_bnf has returned for a plain grammar with two alternatives of
\* <a>, parentheses without an operator and an operator after a terminal,
\* and with <symbol> among its keys
C10_Witness ==
    /\ Returned("ebnf_to_bnf")
    /\ PlainGrammar(grammar)
    /\ ~result.panic
    /\ Len(grammar[SymA]) = 2
    /\ DefaultSymbol \in DOMAIN grammar
    /\ \E e \in ExpansionsOf(grammar) : \E i \in 1..Len(e) : e[i] = "("
    /\ \E e \in ExpansionsOf(grammar) : \E i \in 1..Len(e) : e[i] = "+"

\* the nonterminal symbols the text e refers to
SymbolsIn(e) ==
    {SubSeq(e, p[1], p[2]) :
        p \in {q \in (1..Len(e)) \X (1..Len(e)) :
                  /\ q[1] + 1 < q[2]
                  /\ e[q[1]] = "<"
                  /\ e[q[2]] = ">"
                  /\ \A k \in (q[1] + 1)..(q[2] - 1) :
                        e[k] \notin {"<", ">", " "}}}

\* the nonterminal symbols the grammar g uses: its keys and the symbols its
\* expansions refer to
UsedSymbols(g) == DOMAIN g \cup UNION {SymbolsIn(e) : e \in ExpansionsOf(g)}

\* C11: every symbol that ebnf_to_bnf adds to the keys of the grammar is a
\* symbol the grammar did not use before, neither as a key nor inside an
\* expansion.
C11_FreshSymbols ==
    (/\ Returned("ebnf_to_bnf")
     /\ ~result.panic)
    => \A sym \in DOMAIN result.grammar \ DOMAIN grammar :
          sym \notin UsedSymbols(grammar)

\* C12: ebnf_to_bnf is deterministic: whatever the orders in which the two
\* maps of a call hand out their keys, the call returns the grammar that it
\* returns when both hand them out least first, so two calls on the same
\* grammar return the same keys with the same alternatives.
C12_Deterministic ==
    Returned("ebnf_to_bnf") => result = ebnf_to_bnf(grammar, <<0, 0>>)

\* ebnf_to_bnf has returned for a grammar with two keys, and it has replaced
\* a group or a symbol with an operator in the alternatives of each
C12_Witness ==
    /\ Returned("ebnf_to_bnf")
    /\ ~result.panic
    /\ Cardinality(DOMAIN grammar) = 2
    /\ \A key \in DOMAIN grammar : result.grammar[key] # grammar[key]
    /\ Cardinality(DOMAIN result.grammar) >= 4

\* C13: when ebnf_to_bnf returns, no alternative of the grammar it returns,
\* of a key of the input or of a minted symbol, holds a parenthesized group
\* followed by ?, * or + or a nonterminal symbol followed by ?, * or +.
C13_NoOperatorsLeft ==
    (/\ Returned("ebnf_to_bnf")
     /\ ~result.panic)
    => PlainGrammar(result.grammar)

\* the opening parentheses less the closing ones among the first k
\* characters of e
RECURSIVE Depth(_, _)
Depth(e, k) ==
    IF k = 0 THEN 0
    ELSE Depth(e, k - 1) + (IF e[k] = "(" THEN 1 ELSE IF e[k] = ")" THEN -1 ELSE 0)

\* the parenthesis at i opens and the one at j closes the same group of e
Matched(e, i, j) ==
    /\ i < j
    /\ e[i] = "("
    /\ e[j] = ")"
    /\ Depth(e, j) = Depth(e, i) - 1
    /\ \A k \in i..(j - 1) : Depth(e, k) >= Depth(e, i)

\* the group from i to j of e has something inside and an operator behind
GroupWithOperator(e, i, j) ==
    /\ Matched(e, i, j)
    /\ i + 1 < j
    /\ j < Len(e)
    /\ e[j + 1] \in Operators

\* the groups of e that the parenthesis pass can reach: groups with an
\* operator all of whose inner groups are groups with an operator
ConvertibleGroups(e) ==
    {p \in (1..Len(e)) \X (1..Len(e)) :
        /\ GroupWithOperator(e, p[1], p[2])
        /\ \A q \in ((p[1] + 1)..(p[2] - 1)) \X ((p[1] + 1)..(p[2] - 1)) :
              Matched(e, q[1], q[2]) => GroupWithOperator(e, q[1], q[2])}

\* the places of e where a nonterminal symbol with an operator behind starts
SymbolsWithOperator(e) ==
    {i \in 1..Len(e) :
        \E j \in (i + 2)..(Len(e) - 1) :
            /\ e[i] = "<"
            /\ \A k \in (i + 1)..(j - 1) : e[k] \notin {"<", ">", " "}
            /\ e[j] = ">"
            /\ e[j + 1] \in Operators}

\* the alternatives of all keys of g, one after the other
RECURSIVE AlternativesOf(_, _)
AlternativesOf(g, ks) ==
    IF ks = {} THEN <<>>
    ELSE LET key == CHOOSE k \in ks : TRUE
         IN  g[key] \o AlternativesOf(g, ks \ {key})

RECURSIVE SumConvertibleGroups(_)
SumConvertibleGroups(v) ==
    IF v = <<>> THEN 0
    ELSE Cardinality(ConvertibleGroups(v[1])) + SumConvertibleGroups(Tail(v))

RECURSIVE SumSymbolsWithOperator(_)
SumSymbolsWithOperator(v) ==
    IF v = <<>> THEN 0
    ELSE Cardinality(SymbolsWithOperator(v[1])) + SumSymbolsWithOperator(Tail(v))

\* the groups the parenthesis pass replaces in g
GroupsReplaced(g) == SumConvertibleGroups(AlternativesOf(g, DOMAIN g))

\* the symbols with an operator that the operator pass replaces in the
\* grammar that the parenthesis pass returns for g
OperatorsReplaced(g) ==
    LET first == convert_grammar(g, "convert_ebnf_parentheses", 0).grammar
    IN  SumSymbolsWithOperator(AlternativesOf(first, DOMAIN first))

\* C14: the grammar ebnf_to_bnf returns has as many keys as the grammar
\* given, plus the groups replaced in the parenthesis pass, plus the symbols
\* with an operator replaced in the operator pass; every key of the grammar
\* given is a key of it with as many alternatives as before.
C14_KeysGrowByReplacements ==
    (/\ Returned("ebnf_to_bnf")
     /\ ~result.panic)
    => /\ Cardinality(DOMAIN result.grammar) =
            Cardinality(DOMAIN grammar) + GroupsReplaced(grammar)
                                        + OperatorsReplaced(grammar)
       /\ \A key \in DOMAIN grammar :
             /\ key \in DOMAIN result.grammar
             /\ Len(result.grammar[key]) = Len(grammar[key])

\* ebnf_to_bnf has returned for a grammar with two alternatives of one key,
\* a group to replace and, after the parenthesis pass, several symbols with
\* an operator to replace
C14_Witness ==
    /\ Returned("ebnf_to_bnf")
    /\ ~result.panic
    /\ \E key \in DOMAIN grammar : Len(grammar[key]) = 2
    /\ GroupsReplaced(grammar) >= 1
    /\ OperatorsReplaced(grammar) >= 2
    /\ OperatorsReplaced(grammar) > GroupsReplaced(grammar)
    /\ Cardinality(DOMAIN result.grammar) >= Cardinality(DOMAIN grammar) + 3

\* the text f occurs in the text e
OccursIn(f, e) ==
    \E i \in 1..(Len(e) - Len(f) + 1) : SubSeq(e, i, i + Len(f) - 1) = f

\* the alternatives of the symbol F that stands for the symbol S followed by
\* the operator op
ExpectedAlternatives(op, S, F) ==
    CASE op = "?" -> << <<>>, S >>
      [] op = "*" -> << <<>>, S \o F >>
      [] op = "+" -> << S, S \o F >>

\* the symbols with their operators, S op, of the text e that the
\* alternatives alts of F stand for
StandsFor(alts, F, e) ==
    {p[1] \o <<p[2]>> : p \in {q \in SymbolsIn(e) \X Operators :
                             alts = ExpectedAlternatives(q[2], q[1], F)}}

\* a text that no pass returns
Unrestorable == <<"unrestorable">>

\* the text with each new symbol of new_expansions that occurs in it
\* replaced by the symbol and the operator of e that it stands for
RECURSIVE RestoreOperators(_, _, _)
RestoreOperators(text, new_expansions, e) ==
    IF DOMAIN new_expansions = {} THEN text
    ELSE LET here == {F \in DOMAIN new_expansions :
                         /\ OccursIn(F, text)
                         /\ StandsFor(new_expansions[F], F, e) # {}}
         IN  IF here = {} THEN Unrestorable
             ELSE LET F == CHOOSE f \in here : TRUE
                      original == CHOOSE t \in StandsFor(new_expansions[F], F, e) : TRUE
                      others == [f \in DOMAIN new_expansions \ {F} |-> new_expansions[f]]
                  IN  RestoreOperators(replacen(text, F, original), others, e)

\* the text with each new symbol of new_expansions, where an operator
\* follows it, replaced by its single alternative in parentheses
RECURSIVE RestoreGroups(_, _)
RestoreGroups(text, new_expansions) ==
    IF DOMAIN new_expansions = {} THEN text
    ELSE LET here == {F \in DOMAIN new_expansions :
                         /\ Len(new_expansions[F]) = 1
                         /\ \E op \in Operators : OccursIn(F \o <<op>>, text)}
         IN  IF here = {} THEN Unrestorable
             ELSE LET F == CHOOSE f \in here : TRUE
                      group == <<"(">> \o new_expansions[F][1] \o <<")">>
                      others == [f \in DOMAIN new_expansions \ {F} |-> new_expansions[f]]
                  IN  RestoreGroups(replacen(text, F, group), others)

\* C15: convert_ebnf_operators replaces each symbol S followed by an
\* operator by a new symbol F of its own, with the alternatives "", S for ?,
\* "", S F for * and S, S F for +, in this order; convert_ebnf_parentheses
\* replaces each group (content)op by F op with a new symbol F of its own
\* that has content as its single alternative. Putting back what the new
\* symbols stand for gives the text that was converted.
C15_ReplacementShapes ==
    /\ (/\ Returned("convert_ebnf_operators")
        /\ ~result.panic)
       => /\ Cardinality(DOMAIN result.new_expansions) =
                Cardinality(SymbolsWithOperator(call.expansion))
          /\ DOMAIN result.new_expansions \cap call.symbols = {}
          /\ \A F \in DOMAIN result.new_expansions :
                /\ OccursIn(F, result.expansion)
                /\ StandsFor(result.new_expansions[F], F, call.expansion) # {}
          /\ SymbolsWithOperator(result.expansion) = {}
          /\ RestoreOperators(result.expansion, result.new_expansions,
                              call.expansion) = call.expansion
    /\ (/\ Returned("convert_ebnf_parentheses")
        /\ ~result.panic)
       => /\ Cardinality(DOMAIN result.new_expansions) =
                Cardinality(ConvertibleGroups(call.expansion))
          /\ DOMAIN result.new_expansions \cap call.symbols = {}
          /\ \A F \in DOMAIN result.new_expansions :
                Len(result.new_expansions[F]) = 1
          /\ RestoreGroups(result.expansion, result.new_expansions)
                = call.expansion

\* convert_ebnf_operators has returned for a text with two symbols followed
\* by an operator, with a new symbol for each
C15_Witness ==
    /\ Returned("convert_ebnf_operators")
    /\ ~result.panic
    /\ Cardinality(SymbolsWithOperator(call.expansion)) = 2
    /\ Cardinality(DOMAIN result.new_expansions) = 2
    /\ result.expansion # call.expansion

\* the places of e where a group starts that has something other than
\* parentheses inside and an operator behind
GroupsWithOperator(e) ==
    {i \in 1..Len(e) :
        \E j \in (i + 2)..(Len(e) - 1) :
            /\ e[i] = "("
            /\ \A k \in (i + 1)..(j - 1) : e[k] \notin {"(", ")"}
            /\ e[j] = ")"
            /\ e[j + 1] \in Operators}

\* the least of a set of places that is not empty
Leftmost(places) == CHOOSE i \in places : \A j \in places : i <= j

\* the place of the first closing character after the place i of e
ClosingAfter(e, i, closing) ==
    CHOOSE j \in (i + 1)..Len(e) :
        e[j] = closing /\ \A k \in (i + 1)..(j - 1) : e[k] # closing

\* C16: when next_parenthesized_expression or next_extended_nonterminal
\* finds something, it is the leftmost group, or symbol, with an operator
\* behind, op is one character of ?, * and +, and token is the group, or the
\* symbol, and that one character, also when more operator characters
\* follow; when the text has no such group, or symbol, the result is None.
C16_OneOperatorCharacter ==
    /\ Returned("next_parenthesized_expression")
       => IF GroupsWithOperator(call.input) = {}
          THEN result = None
          ELSE LET i == Leftmost(GroupsWithOperator(call.input))
                   j == ClosingAfter(call.input, i, ")")
               IN  /\ result # None
                   /\ result[1].op = <<call.input[j + 1]>>
                   /\ result[1].content = SubSeq(call.input, i + 1, j - 1)
                   /\ result[1].token = SubSeq(call.input, i, j + 1)
    /\ Returned("next_extended_nonterminal")
       => IF SymbolsWithOperator(call.input) = {}
          THEN result = None
          ELSE LET i == Leftmost(SymbolsWithOperator(call.input))
                   j == ClosingAfter(call.input, i, ">")
               IN  /\ result # None
                   /\ result[1].op = <<call.input[j + 1]>>
                   /\ result[1].symbol = SubSeq(call.input, i, j)
                   /\ result[1].token = SubSeq(call.input, i, j + 1)

\* t is a run of one or more characters other than < and >
IsTerminalText(t) ==
    /\ Len(t) >= 1
    /\ \A k \in 1..Len(t) : t[k] \notin {LT, GT}

\* t is <name> with name one or more characters other than <, > and space
IsNonterminalText(t) ==
    /\ Len(t) >= 3
    /\ t[1] = LT
    /\ t[Len(t)] = GT
    /\ \A k \in 2..(Len(t) - 1) : t[k] \notin {LT, GT, SP}

\* the pieces of e between the places of cuts: the piece that starts at i
\* ends before the next place of cuts
PiecesAt(e, cuts) ==
    {SubSeq(e, i, (CHOOSE j \in cuts : j > i /\ \A k \in cuts : k > i => j <= k) - 1) :
        i \in cuts \ {Len(e) + 1}}

\* e can be cut into pieces each of which is a terminal or a nonterminal
\* text
Splittable(e) ==
    \E inner \in SUBSET (2..Len(e)) :
        \A t \in PiecesAt(e, inner \cup {1, Len(e) + 1}) :
            IsTerminalText(t) \/ IsNonterminalText(t)

\* the texts of the tokens of v, one after the other
RECURSIVE ConcatTexts(_)
ConcatTexts(v) ==
    IF v = <<>> THEN <<>> ELSE v[1].text \o ConcatTexts(Tail(v))

\* C17: tokens either panics or returns tokens for the whole input: their
\* texts one after the other are the input, every Terminal is a run of one
\* or more characters other than < and > with no Terminal next to it, and
\* every Nonterminal is <name> with a name of one or more characters other
\* than <, > and space. It panics for every input that cannot be cut into
\* such texts, and only for those.
C17_TokensCoverInput ==
    Returned("tokens")
    => IF result.panic
       THEN ~Splittable(call.input)
       ELSE /\ ConcatTexts(result.tokens) = call.input
            /\ \A i \in 1..Len(result.tokens) :
                  /\ result.tokens[i].type \in {"Terminal", "Nonterminal"}
                  /\ result.tokens[i].type = "Terminal"
                        => IsTerminalText(result.tokens[i].text)
                  /\ result.tokens[i].type = "Nonterminal"
                        => IsNonterminalText(result.tokens[i].text)
            /\ \A i \in 1..(Len(result.tokens) - 1) :
                  ~(/\ result.tokens[i].type = "Terminal"
                    /\ result.tokens[i + 1].type = "Terminal")

\* tokens has panicked on a text that starts with a nonterminal and a
\* terminal and then has a < that nothing closes
C17_Witness ==
    /\ Returned("tokens")
    /\ result.panic
    /\ Len(call.input) = 5
    /\ SubSeq(call.input, 1, 3) = SymA
    /\ call.input[4] = SP
    /\ call.input[5] = LT

\* C18: in every tree that expansion steps reach, and for every subtree of
\* it, any_possible_expansions is true iff num_possible_expansions is more
\* than 0, and num_possible_expansions is the number of Unexpanded nodes of
\* the subtree.
C18_AnyIffCountPositive ==
    \A n \in NodesOf(tree) :
        /\ any_possible_expansions(n) <=> num_possible_expansions(n) > 0
        /\ num_possible_expansions(n) = Len(UnexpandedOf(n))

\* a tree after a step with two Unexpanded nodes or more, a Terminal node
\* and an Expanded node without an Unexpanded node below it
C18_Witness ==
    /\ step >= 1
    /\ num_possible_expansions(tree) >= 2
    /\ \E n \in NodesOf(tree) : n.kind = "T"
    /\ \E n \in NodesOf(tree) :
          n.kind = "EN" /\ ~any_possible_expansions(n)

\* the strategy whose loop is running is a RandomStrategy or a
\* GrowthStrategy
ThresholdStrategyRuns ==
    /\ pc = "expand"
    /\ idx <= Len(strategies)
    /\ strategies[idx].kind \in {"Random", "Growth"}

\* C19: under a RandomStrategy or a GrowthStrategy, expand_tree_with_strategy
\* calls expand_tree_once only when the tree has at least one Unexpanded
\* node and fewer than nonterminals_threshold, and fewer than max_steps steps
\* were taken under this strategy; the steps taken never exceed max_steps;
\* and when the loop stops, the tree is exhausted, or it has
\* nonterminals_threshold Unexpanded nodes or more, or max_steps steps were
\* taken.
C19_ThresholdAndMaxSteps ==
    [][ThresholdStrategyRuns =>
          LET strategy == strategies[idx]
              unexpanded == Len(UnexpandedOf(tree))
          IN  /\ (tree' # tree \/ pc' = "panicked")
                 => /\ unexpanded >= 1
                    /\ unexpanded < strategy.nonterminals_threshold
                    /\ step < strategy.max_steps
                    /\ idx' = idx
              /\ tree' # tree => step' = step + 1
              /\ idx' = idx => step' <= strategy.max_steps
              /\ idx' # idx
                 => /\ tree' = tree
                    /\ \/ unexpanded = 0
                       \/ unexpanded >= strategy.nonterminals_threshold
                       \/ step >= strategy.max_steps]_vars

\* the loop of a RandomStrategy or GrowthStrategy has taken a step, fewer
\* than max_steps, and the tree has nonterminals_threshold Unexpanded nodes,
\* two or more
C19_Witness ==
    /\ ThresholdStrategyRuns
    /\ step >= 1
    /\ step < strategies[idx].max_steps
    /\ strategies[idx].nonterminals_threshold >= 2
    /\ Len(UnexpandedOf(tree)) >= strategies[idx].nonterminals_threshold

\* C20: expand_tree applies the strategies in the order of the list to the
\* same tree: the place in the list only moves on by one, and only when the
\* loop of the strategy at that place has stopped; the tree is then as that
\* strategy left it and the step count is 0 again; the tree changes only
\* while the loop of the strategy at the place runs, and counts as a step of
\* that strategy; and expand_tree returns only after the last strategy has
\* stopped.
C20_StrategiesInOrder ==
    [][/\ strategies' = strategies
       /\ idx' \in {idx, idx + 1}
       /\ idx' = idx + 1
          => /\ idx <= Len(strategies)
             /\ \/ ~any_possible_expansions(tree)
                \/ ~cont(strategies[idx], tree, step)
             /\ tree' = tree
             /\ step' = 0
             /\ pc' = pc
       /\ tree' # tree
          => /\ idx <= Len(strategies)
             /\ idx' = idx
             /\ any_possible_expansions(tree)
             /\ cont(strategies[idx], tree, step)
             /\ step' = step + 1
       /\ pc' = "done"
          => /\ idx = Len(strategies) + 1
             /\ tree' = tree]_vars

\* the second strategy of a chain has taken its first step, on a tree that
\* the first strategy left with two Expanded nodes or more
C20_Witness ==
    /\ pc = "expand"
    /\ idx = 2
    /\ idx <= Len(strategies)
    /\ strategies[1] # strategies[2]
    /\ step = 1
    /\ Cardinality({n \in NodesOf(tree) : n.kind = "EN"}) >= 3

----------------------------------------------------------------------------
(* Claims about the choice of the strategies                               *)

\* the cost of each alternative of sym with sym seen, as costs computes it
\* for choose
AlternativeCosts(g, sym) ==
    [i \in 1..Len(g[sym]) |-> expansion_cost(g, g[sym][i], {sym})]

\* the costs of all alternatives of sym are defined: sym is a key with an
\* alternative and no cost panics
CostsDefined(g, sym) ==
    /\ sym \in DOMAIN g
    /\ Len(g[sym]) >= 1
    /\ \A i \in 1..Len(g[sym]) : AlternativeCosts(g, sym)[i] # PANIC

\* c is at most d as costs
CostAtMost(c, d) == d = INFINITY \/ (c # INFINITY /\ c <= d)

\* the alternatives of sym whose cost no alternative of sym is below
CheapestAlternatives(g, sym) ==
    {g[sym][i] : i \in {j \in 1..Len(g[sym]) :
        \A k \in 1..Len(g[sym]) :
            CostAtMost(AlternativeCosts(g, sym)[j], AlternativeCosts(g, sym)[k])}}

\* C21: cont of CloseStrategy is true for every tree and number of steps;
\* choose of CloseStrategy returns an alternative of the symbol whose cost,
\* with the symbol seen, is the least of the costs of the alternatives, and
\* each alternative of least cost is one it may return, not the leftmost
\* alone. For <int> -> <digit><int> | <digit> it returns <digit>.
C21_CloseChoosesCheapest ==
    /\ (/\ Returned("cont")
        /\ call.strategy.kind = "Close")
       => result = TRUE
    /\ (/\ Returned("choose")
        /\ call.strategy.kind = "Close"
        /\ CostsDefined(grammar, call.symbol))
       => /\ ~result.panic
          /\ result.expansion \in CheapestAlternatives(grammar, call.symbol)
          /\ choose(call.strategy, grammar, call.symbol).set
                = CheapestAlternatives(grammar, call.symbol)
    /\ (/\ Returned("choose")
        /\ call.strategy.kind = "Close"
        /\ grammar = IntGrammar
        /\ call.symbol = SymA)
       => result = [panic |-> FALSE, expansion |-> SymB]

\* choose of CloseStrategy has returned the second of two alternatives of
\* the same finite cost
C21_Witness ==
    /\ Returned("choose")
    /\ call.strategy.kind = "Close"
    /\ CostsDefined(grammar, call.symbol)
    /\ Len(grammar[call.symbol]) = 2
    /\ AlternativeCosts(grammar, call.symbol)[1] = AlternativeCosts(grammar, call.symbol)[2]
    /\ AlternativeCosts(grammar, call.symbol)[1] >= 1
    /\ result.expansion = grammar[call.symbol][2]

\* the alternatives of sym whose cost no alternative of sym is above
CostliestAlternatives(g, sym) ==
    {g[sym][i] : i \in {j \in 1..Len(g[sym]) :
        \A k \in 1..Len(g[sym]) :
            CostAtMost(AlternativeCosts(g, sym)[k], AlternativeCosts(g, sym)[j])}}

\* C22: choose of GrowthStrategy returns an alternative of the symbol whose
\* cost, with the symbol seen, is the greatest of the costs of the
\* alternatives, so an alternative that refers to the symbol itself, of
\* infinite cost, goes before every alternative of finite cost; each
\* alternative of greatest cost is one it may return.
C22_GrowthChoosesCostliest ==
    (/\ Returned("choose")
     /\ call.strategy.kind = "Growth"
     /\ CostsDefined(grammar, call.symbol))
    => /\ ~result.panic
       /\ result.expansion \in CostliestAlternatives(grammar, call.symbol)
       /\ choose(call.strategy, grammar, call.symbol).set
             = CostliestAlternatives(grammar, call.symbol)
       /\ \A i \in 1..Len(grammar[call.symbol]) :
             (/\ call.symbol \in SymbolsIn(grammar[call.symbol][i])
              /\ ~tokens_panics(grammar[call.symbol][i]))
             => grammar[call.symbol][i]
                   \in choose(call.strategy, grammar, call.symbol).set

\* choose of GrowthStrategy has returned the second of two alternatives,
\* which refers to the symbol itself, and not the first, of finite cost
C22_Witness ==
    /\ Returned("choose")
    /\ call.strategy.kind = "Growth"
    /\ CostsDefined(grammar, call.symbol)
    /\ Len(grammar[call.symbol]) = 2
    /\ AlternativeCosts(grammar, call.symbol)[1] >= 1
    /\ AlternativeCosts(grammar, call.symbol)[2] = INFINITY
    /\ call.symbol \in SymbolsIn(grammar[call.symbol][2])
    /\ result.expansion = grammar[call.symbol][2]

\* the Expanded nodes of the subtree, node among them
RECURSIVE ExpandedCount(_)
RECURSIVE ExpandedCountOfRoots(_, _)
ExpandedCountOfRoots(roots, i) ==
    IF i > Len(roots) THEN 0
    ELSE ExpandedCount(roots[i]) + ExpandedCountOfRoots(roots, i + 1)

ExpandedCount(node) ==
    IF node.kind = "EN" THEN 1 + ExpandedCountOfRoots(node.roots, 1) ELSE 0

\* C23: on a grammar that is_valid_grammar accepted, Close alone from the
\* root Unexpanded(S) takes exactly symbol_cost(S, {}) steps until the tree
\* is exhausted, whatever is drawn: the steps taken and the costs of the
\* Unexpanded nodes left add up to symbol_cost(S, {}) all the way; the
\* same holds below every node Close expanded from a symbol X, whose subtree
\* ends with symbol_cost(X, {}) Expanded nodes; and the cost of the symbol
\* of every nonterminal child is less than the cost of the symbol of its
\* parent.
C23_CloseStepsAreSymbolCost ==
    /\ (pc = "expand" /\ idx = 1) => step = ExpandedCount(tree)
    /\ ExpandedCount(tree) + CloseRank(tree) = symbol_cost(grammar, start, {})
    /\ pc = "done" => ExpandedCount(tree) = symbol_cost(grammar, start, {})
    /\ \A n \in NodesOf(tree) :
          n.kind = "EN"
          => /\ ExpandedCount(n) + CloseRank(n) = symbol_cost(grammar, n.sym, {})
             /\ \A i \in 1..Len(n.roots) :
                   n.roots[i].kind \in {"N", "EN"}
                   => /\ symbol_cost(grammar, n.roots[i].sym, {}) >= 1
                      /\ symbol_cost(grammar, n.roots[i].sym, {})
                            < symbol_cost(grammar, n.sym, {})

\* Close has returned a tree of three Expanded nodes or more on a grammar
\* whose start symbol has two alternatives that differ in cost
C23_Witness ==
    /\ pc = "done"
    /\ strategies = <<CloseStrategy>>
    /\ ExpandedCount(tree) >= 3
    /\ ExpandedCount(tree) = symbol_cost(grammar, start, {})
    /\ Len(grammar[start]) >= 2
    /\ AlternativeCosts(grammar, start)[1] # AlternativeCosts(grammar, start)[2]

----------------------------------------------------------------------------
(* Claims about the grammars is_valid_grammar accepts                      *)

\* is_valid_grammar(Some(start)) returned true
Accepted ==
    LET valid == is_valid_grammar(grammar, Some(start))
    IN  ~valid.panic /\ valid.value

\* what choose of the three kinds of strategy answers for a symbol
ChoicesOf(symbol) ==
    {choose(strategy, grammar, symbol) : strategy \in LaterStrategies}

\* the symbol is a key reached from start with at least one alternative,
\* every alternative of it scans, its costs are computed without a lookup
\* of an undefined symbol, and choose of Random, Growth and Close answers
\* with an alternative
ExpandsWithoutPanic(symbol) ==
    /\ symbol \in DOMAIN grammar
    /\ grammar[symbol] # <<>>
    /\ \A i \in 1..Len(grammar[symbol]) : ~tokens_panics(grammar[symbol][i])
    /\ ~CostsPanic(costs(grammar, symbol, grammar[symbol]))
    /\ \A chosen \in ChoicesOf(symbol) : ~chosen.panic /\ chosen.set # {}
    /\ symbol \in find_reachable_nonterminals(grammar, start).set

\* the symbols of the Unexpanded nodes of the tree
UnexpandedSymbols ==
    {UnexpandedOf(tree)[k] : k \in 1..Len(UnexpandedOf(tree))}

\* C24: when is_valid_grammar(start) returned true, no step of the expansion
\* from N(start) panics, whatever the chain of strategies and the draws, and
\* every Unexpanded node holds a symbol that expands without a panic under
\* each kind of strategy; put the other way round, a panic or an Unexpanded
\* symbol that can panic is met only when the grammar was not accepted.
C24_AcceptedGrammarNeverPanics ==
    \/ /\ pc # "panicked"
       /\ \A symbol \in UnexpandedSymbols : ExpandsWithoutPanic(symbol)
    \/ ~Accepted

\* an accepted grammar with a rule that refers to an undefined symbol was
\* expanded to the end by a chain that changed strategy
C24_Witness ==
    /\ Accepted
    /\ pc = "done"
    /\ ~any_possible_expansions(tree)
    /\ Len(strategies) >= 2
    /\ ExpandedCount(tree) >= 3
    /\ ~ReferencesOnlyDefined(grammar)

----------------------------------------------------------------------------
(* Claims about the recursion of symbol_cost                               *)

\* symbol_cost returned for a key of a grammar whose expansions refer to
\* keys only
CostCallReturned ==
    /\ Returned("symbol_cost")
    /\ ReferencesOnlyDefined(grammar)
    /\ call.symbol \in DOMAIN grammar

\* the nested calls of the call that returned
NestedCalls == symbol_cost_calls(grammar, call.symbol, call.seen, 1)

StrictlyLarger(s, t) == s \subseteq t /\ s # t

\* C25 as stated: every nested symbol_cost call has a symbol outside its
\* seen set and a seen set strictly larger than its caller's, and the
\* nesting is no deeper than the number of keys.
C25_SeenStrictlyLarger ==
    CostCallReturned
    => \A c \in NestedCalls :
          /\ c.symbol \notin c.seen
          /\ StrictlyLarger(c.caller.seen, c.seen)
          /\ c.depth <= Cardinality(DOMAIN grammar)

\* C25: symbol_cost returns a cost for every key of a grammar whose
\* expansions refer to keys only: every nested symbol_cost call has a symbol
\* outside its seen set, its seen set is its caller's with the caller's
\* symbol added, strictly larger whenever the caller's symbol was not in the
\* caller's seen set (always below the outermost call), and the nesting is
\* no deeper than the number of keys, nor than one more than the number of
\* keys outside the outermost seen set.
C25_NestedCallsAvoidSeen ==
    CostCallReturned
    => /\ result # PANIC
       /\ \A c \in NestedCalls :
             /\ c.symbol \notin c.seen
             /\ c.symbol \in DOMAIN grammar
             /\ c.seen = c.caller.seen \cup {c.caller.symbol}
             /\ c.caller.symbol \notin c.caller.seen
                   => StrictlyLarger(c.caller.seen, c.seen)
             /\ c.depth > 2 => StrictlyLarger(c.caller.seen, c.seen)
             /\ c.depth <= Cardinality(DOMAIN grammar)
             /\ c.depth <= Cardinality(DOMAIN grammar \ call.seen) + 1
             /\ c.depth < MaxDepth

\* symbol_cost(_, {}) returned infinity for a grammar in which every rule
\* refers to a key, after a nested call as deep as there are keys
C25_Witness ==
    /\ CostCallReturned
    /\ call.seen = {}
    /\ result = INFINITY
    /\ Cardinality(DOMAIN grammar) = 2
    /\ \A sym \in DOMAIN grammar : \A i \in 1..Len(grammar[sym]) :
          nonterminal_tokens(grammar[sym][i]) # <<>>
    /\ \E c \in NestedCalls :
          c.depth = 2 /\ c.symbol # call.symbol /\ c.seen = {call.symbol}
====
